---- MODULE Spec2Model ----
(***************************************************************************)
(* Model of src/server.js: the session registry (sockets, qrCodes,         *)
(* sessionChats, sessionMessages, sessionStores), the event handlers that  *)
(* startSocket registers on a connection handle, and the HTTP handlers     *)
(* GET chats and GET messages.                                             *)
(*                                                                         *)
(* JavaScript strings are tuples of one-character strings; the empty tuple *)
(* stands for both "" and undefined in the string fields below (the code   *)
(* only ever tests those fields for truthiness).  A JavaScript Map is a    *)
(* sequence of entries in insertion order, the order Map iteration uses.   *)
(***************************************************************************)
EXTENDS Integers, Sequences, FiniteSets, TLC

VARIABLES
    sockets,          \* sessionName -> id of the registered handle, 0 if none
    socks,            \* every handle made by makeWASocket so far
    qrCodes,          \* sessionName -> pending QR artifact, 0 if none
    sessionChats,     \* sessionName -> [has, map]: Map chatId -> chat
    sessionMessages,  \* sessionName -> [has, map]: Map jid -> array of messages
    sessionStores,    \* sessionName -> [has, contacts, messages]
    disk,             \* sessionName -> [dir, creds]: the session directory
    timers,           \* sessionName -> number of pending reconnect timers
    renders,          \* QR renders in flight (QRCode.toDataURL not yet resolved)
    last,             \* the HTTP request the last step handled, and its answer
    pushed            \* sessionName -> jid -> ids in the order the code pushed them

vars == <<sockets, socks, qrCodes, sessionChats, sessionMessages, sessionStores,
          disk, timers, renders, last, pushed>>

---------------------------------------------------------------------------
\* Strings

AtGUs == <<"@","g",".","u","s">>
AtSWhatsappNet == <<"@","s",".","w","h","a","t","s","a","p","p",".","n","e","t">>
AtLid == <<"@","l","i","d">>
Broadcast == <<"b","r","o","a","d","c","a","s","t">>
StatusBroadcast == <<"s","t","a","t","u","s","@">> \o Broadcast
ServerCUs == <<"s","e","r","v","e","r","@","c",".","u","s">>
Unknown == <<"U","n","k","n","o","w","n">>
Group == <<"G","r","o","u","p">>
UnknownContact == Unknown \o <<" ","C","o","n","t","a","c","t">>

DigitChars == {"0","1","2","3","4","5","6","7","8","9"}

DigitVal(c) ==
    CASE c = "0" -> 0 [] c = "1" -> 1 [] c = "2" -> 2 [] c = "3" -> 3 [] c = "4" -> 4
      [] c = "5" -> 5 [] c = "6" -> 6 [] c = "7" -> 7 [] c = "8" -> 8 [] c = "9" -> 9

\* String.prototype.endsWith
EndsWith(s, suf) ==
    /\ Len(s) >= Len(suf)
    /\ SubSeq(s, Len(s) - Len(suf) + 1, Len(s)) = suf

\* String.prototype.includes
Includes(s, sub) ==
    \E i \in 1..(Len(s) - Len(sub) + 1) : SubSeq(s, i, i + Len(sub) - 1) = sub

\* s.split(ch)[0]: the part of s before the first ch, all of s if there is none
SplitHead(s, ch) ==
    IF \E i \in 1..Len(s) : s[i] = ch
    THEN SubSeq(s, 1, (CHOOSE i \in 1..Len(s) : s[i] = ch /\ \A j \in 1..(i-1) : s[j] # ch) - 1)
    ELSE s

\* The longest prefix of s made of decimal digits
DigitPrefix(s) ==
    IF \E i \in 1..Len(s) : s[i] \notin DigitChars
    THEN SubSeq(s, 1, (CHOOSE i \in 1..Len(s) :
                          s[i] \notin DigitChars /\ \A j \in 1..(i-1) : s[j] \in DigitChars) - 1)
    ELSE s

RECURSIVE DecimalValue(_)
DecimalValue(ds) ==
    IF ds = <<>> THEN 0
    ELSE 10 * DecimalValue(SubSeq(ds, 1, Len(ds) - 1)) + DigitVal(ds[Len(ds)])

---------------------------------------------------------------------------
\* JavaScript values of the timestamp fields: a number, a string or undefined.
\* NaN is the number record with nan set.

JsNum(n) == [type |-> "number", n |-> n, nan |-> FALSE]
JsNaN == [type |-> "number", n |-> 0, nan |-> TRUE]
JsStr(s) == [type |-> "string", s |-> s]
JsUndef == [type |-> "undefined"]
JsFalse == [type |-> "boolean", b |-> FALSE]

\* ToBoolean
Truthy(v) ==
    CASE v.type = "number" -> ~v.nan /\ v.n # 0
      [] v.type = "string" -> v.s # <<>>
      [] OTHER -> FALSE

\* parseInt(s, 10) of a string without sign or leading blanks
ParseInt(s) ==
    IF DigitPrefix(s) = <<>> THEN JsNaN ELSE JsNum(DecimalValue(DigitPrefix(s)))

\* Number(s) of a string without sign, blanks, fraction or exponent
ToNumber(s) ==
    IF s = <<>> THEN JsNum(0)
    ELSE IF DigitPrefix(s) = s THEN JsNum(DecimalValue(s)) ELSE JsNaN

---------------------------------------------------------------------------
\* JavaScript objects are records; a property the object lacks is a field the
\* record lacks.

\* obj.f of a string property, "" when it is missing
Str(obj, f) == IF f \in DOMAIN obj THEN obj[f] ELSE <<>>

\* obj.f of a number property in an || chain, 0 when it is missing
Num(obj, f) == IF f \in DOMAIN obj THEN obj[f] ELSE 0

\* obj.f of a timestamp property
Val(obj, f) == IF f \in DOMAIN obj THEN obj[f] ELSE JsUndef

\* m.key?.id
KeyId(m) == IF "key" \in DOMAIN m THEN Str(m.key, "id") ELSE <<>>

\* A sequence given as a function on 1..n, as the tuple of its elements
Tuple(f) == <<>> \o f

\* Map.prototype.has / get / set / keys, on a sequence of [k, v] entries
MapHas(m, k) == \E i \in 1..Len(m) : m[i].k = k

MapIndex(m, k) == CHOOSE i \in 1..Len(m) : m[i].k = k

MapGet(m, k) == m[MapIndex(m, k)].v

MapSet(m, k, v) ==
    IF MapHas(m, k) THEN [m EXCEPT ![MapIndex(m, k)].v = v]
    ELSE Append(m, [k |-> k, v |-> v])

MapKeys(m) == Tuple([i \in 1..Len(m) |-> m[i].k])

\* The array a Map holds for a key, the empty array when the key is missing
ArrayOf(m, k) == IF MapHas(m, k) THEN MapGet(m, k) ELSE <<>>

\* A membership test that never finds the id
ExistsNever(arr, msgId) == FALSE

\* chatMessages.some(m => m.key?.id === messageId)
Exists(arr, msgId) == \E i \in 1..Len(arr) : KeyId(arr[i]) = msgId

\* for (const x of arr) w = Body(w, x).  The loop is split in halves and the
\* first half is compared with itself so that it is evaluated before the second
\* starts, which keeps the evaluation of a long loop shallow.
RECURSIVE ForOf(_, _, _, _, _)
ForOf(Body(_, _), w, arr, lo, hi) ==
    IF lo > hi THEN w
    ELSE IF lo = hi THEN Body(w, arr[lo])
    ELSE LET mid == (lo + hi) \div 2
             half == ForOf(Body, w, arr, lo, mid)
         IN  IF half = half THEN ForOf(Body, half, arr, mid + 1, hi) ELSE w

\* The stable arrangement of the indexes 1..n under before(j, i), "j sorts
\* strictly before i": index i goes to the place after those before it and
\* after the earlier ones that tie with it
Arrange(n, Before(_, _)) ==
    LET pos == Tuple([i \in 1..n |->
                  1 + Cardinality({j \in 1..n :
                        Before(j, i) \/ (j < i /\ ~Before(i, j))})])
    IN  Tuple([p \in 1..n |-> CHOOSE i \in 1..n : pos[i] = p])

\* Array.prototype.sort with a comparator that is a total preorder: stable
SortCmp(arr, Cmp(_, _)) ==
    LET at == Arrange(Len(arr), LAMBDA j, i : Cmp(arr[j], arr[i]) < 0)
    IN  Tuple([p \in 1..Len(arr) |-> arr[at[p]]])

\* a - b of two numbers
Minus(a, b) == IF a.nan \/ b.nan THEN JsNaN ELSE JsNum(a.n - b.n)

\* What the sort makes of the comparator (a, b) => Key(a) - Key(b) for the
\* elements i and j, keys holding the keys: a NaN counts as +0
KeyOrder(keys, i, j) == IF Minus(keys[i], keys[j]).nan THEN 0 ELSE Minus(keys[i], keys[j]).n

\* Where a key is NaN the comparator is not a consistent one and the order is
\* the one the engine's algorithm leaves.  Node's sort is V8's TimSort, which
\* for an array of less than 64 elements takes the run the array begins with
\* (reversed when it strictly descends) and inserts each later element by
\* binary search.  Positions are counted from 0 as the algorithm does; work
\* holds the indexes of the elements.
RECURSIVE BinarySearch(_, _, _, _, _)
BinarySearch(keys, work, pivot, left, right) ==
    IF left >= right THEN left
    ELSE LET mid == left + (right - left) \div 2
         IN  IF KeyOrder(keys, pivot, work[mid + 1]) < 0
             THEN BinarySearch(keys, work, pivot, left, mid)
             ELSE BinarySearch(keys, work, pivot, mid + 1, right)

RECURSIVE BinaryInsertionSort(_, _, _)
BinaryInsertionSort(keys, work, start) ==
    IF start >= Len(work) THEN work
    ELSE LET pivot == work[start + 1]
             left == BinarySearch(keys, work, pivot, 0, start)
         IN  BinaryInsertionSort(keys,
                                 SubSeq(work, 1, left) \o <<pivot>>
                                     \o SubSeq(work, left + 1, start)
                                     \o SubSeq(work, start + 2, Len(work)),
                                 start + 1)

\* The length of the run the array begins with, idx being the next element
RECURSIVE RunLength(_, _, _)
RunLength(keys, isDescending, idx) ==
    IF idx > Len(keys) THEN Len(keys)
    ELSE IF isDescending /\ KeyOrder(keys, idx, idx - 1) >= 0 THEN idx - 1
    ELSE IF ~isDescending /\ KeyOrder(keys, idx, idx - 1) < 0 THEN idx - 1
    ELSE RunLength(keys, isDescending, idx + 1)

TimSortShort(keys) ==
    IF Len(keys) < 2 THEN Tuple([i \in 1..Len(keys) |-> i])
    ELSE LET isDescending == KeyOrder(keys, 2, 1) < 0
             run == RunLength(keys, isDescending, 3)
         IN  BinaryInsertionSort(keys,
                                 Tuple([i \in 1..Len(keys) |->
                                          IF isDescending /\ i <= run THEN run + 1 - i ELSE i]),
                                 run)

\* Array.prototype.sort with the comparator (a, b) => Key(a) - Key(b), the
\* keys being numbers: stable when no key is NaN
SortKey(arr, Key(_)) ==
    LET keys == Tuple([i \in 1..Len(arr) |-> Key(arr[i])])
        at == IF \A i \in 1..Len(arr) : ~keys[i].nan
              THEN Arrange(Len(arr), LAMBDA j, i : keys[j].n < keys[i].n)
              ELSE TimSortShort(keys)
    IN  Tuple([p \in 1..Len(arr) |-> arr[at[p]]])

---------------------------------------------------------------------------
\* The Message Ledger: sessionMessages, and the three feeds that fill it

LedgerCap == 100

\* chatMessages.push(message); if (chatMessages.length > 100) chatMessages.shift()
PushShift(arr, msg) ==
    LET grown == Append(arr, msg)
    IN  IF Len(grown) > LedgerCap THEN Tail(grown) ELSE grown

\* msgStore.get(jid).push(msg) of the GET messages write-back
PushOnly(arr, msg) == Append(arr, msg)

\* if (msg.messageTimestamp && typeof msg.messageTimestamp === 'string')
\*     msg.messageTimestamp = parseInt(msg.messageTimestamp, 10)
NormalizeTimestamp(msg) ==
    IF Truthy(Val(msg, "messageTimestamp")) /\ msg.messageTimestamp.type = "string"
    THEN [msg EXCEPT !.messageTimestamp = ParseInt(msg.messageTimestamp.s)]
    ELSE msg

\* A handler's working state: the session's message Map, its chat Map, and the
\* log of the pushes it made (jid and id, in order).
Work(store, chats, log) == [store |-> store, chats |-> chats, log |-> log]

Logged(log, jid, msgId) == Append(log, [jid |-> jid, id |-> msgId])

\* One iteration of the messages.upsert loop
UpsertOne(w, message) ==
    IF "key" \in DOMAIN message /\ Str(message.key, "remoteJid") # <<>>
    THEN LET chatId == message.key.remoteJid
             chatMessages == ArrayOf(w.store, chatId)
             messageId == Str(message.key, "id")
             exists == Exists(chatMessages, messageId)
             store2 == MapSet(w.store, chatId,
                              IF exists THEN chatMessages ELSE PushShift(chatMessages, message))
             chats2 == IF MapHas(w.chats, chatId) THEN w.chats
                       ELSE MapSet(w.chats, chatId,
                                   [id |-> chatId,
                                    name |-> SplitHead(chatId, "@"),
                                    conversationTimestamp |-> Val(message, "messageTimestamp")])
         IN  Work(store2, chats2, IF exists THEN w.log ELSE Logged(w.log, chatId, messageId))
    ELSE w

UpsertLoop(w, messages) == ForOf(UpsertOne, w, messages, 1, Len(messages))

\* msgWrapper.message || msgWrapper
Unwrap(msgWrapper) == IF "message" \in DOMAIN msgWrapper THEN msgWrapper.message ELSE msgWrapper

\* chat.messages || chat.raw?.messages || []
EmbeddedMessages(chat) ==
    IF "messages" \in DOMAIN chat THEN chat.messages
    ELSE IF "raw" \in DOMAIN chat /\ "messages" \in DOMAIN chat.raw THEN chat.raw.messages
    ELSE <<>>

\* The assignment msg.messageTimestamp = parseInt(...) writes into the object
\* the chat embeds: the entry of the chat after it, and the chat with entry i
\* so converted
NormalizeEntry(msgWrapper) ==
    IF "message" \in DOMAIN msgWrapper
    THEN [msgWrapper EXCEPT !.message = NormalizeTimestamp(@)]
    ELSE NormalizeTimestamp(msgWrapper)

SetEmbedded(chat, chatMessages) ==
    IF "messages" \in DOMAIN chat THEN [chat EXCEPT !.messages = chatMessages]
    ELSE [chat EXCEPT !.raw.messages = chatMessages]

NormalizeAt(chats, chatId, i) ==
    LET chat == MapGet(chats, chatId)
        entry == EmbeddedMessages(chat)[i]
    IN  IF NormalizeEntry(entry) = entry THEN chats
        ELSE MapSet(chats, chatId,
                    SetEmbedded(chat, [EmbeddedMessages(chat) EXCEPT ![i] = NormalizeEntry(@)]))

\* One iteration of the inner loop of messaging-history.set over a chat's
\* embedded messages: the entry at index i
HistoryEmbeddedOne(w, chat, i) ==
    LET msg == Unwrap(EmbeddedMessages(chat)[i])
    IN  IF "key" \notin DOMAIN msg THEN w
        ELSE LET jid == IF Str(msg.key, "remoteJid") # <<>> THEN msg.key.remoteJid ELSE chat.id
                 msgId == Str(msg.key, "id")
                 storedMessages == ArrayOf(w.store, jid)
             IN  IF jid = <<>> \/ msgId = <<>> THEN w
                 ELSE IF Exists(storedMessages, msgId)
                      THEN Work(MapSet(w.store, jid, storedMessages), w.chats, w.log)
                      ELSE Work(MapSet(w.store, jid,
                                       PushShift(storedMessages, NormalizeTimestamp(msg))),
                                NormalizeAt(w.chats, chat.id, i), Logged(w.log, jid, msgId))

HistoryEmbeddedLoop(w, chat, chatMessages) ==
    ForOf(LAMBDA x, i : HistoryEmbeddedOne(x, chat, i),
          w, Tuple([i \in 1..Len(chatMessages) |-> i]), 1, Len(chatMessages))

\* One iteration of the loop of messaging-history.set over history.chats
HistoryChatOne(w, chat) ==
    IF Str(chat, "id") = <<>> THEN w
    ELSE HistoryEmbeddedLoop(Work(w.store, MapSet(w.chats, chat.id, chat), w.log),
                             chat, EmbeddedMessages(chat))

HistoryChatsLoop(w, chats) == ForOf(HistoryChatOne, w, chats, 1, Len(chats))

\* One iteration of the loop of messaging-history.set over history.messages
HistoryMessageOne(w, msg) ==
    LET jid == IF "key" \in DOMAIN msg THEN Str(msg.key, "remoteJid") ELSE <<>>
        msgId == KeyId(msg)
        chatMessages == ArrayOf(w.store, jid)
    IN  IF jid = <<>> \/ msgId = <<>> THEN w
        ELSE IF Exists(chatMessages, msgId)
             THEN Work(MapSet(w.store, jid, chatMessages), w.chats, w.log)
             ELSE Work(MapSet(w.store, jid, PushShift(chatMessages, msg)),
                       w.chats, Logged(w.log, jid, msgId))

HistoryMessagesLoop(w, messages) == ForOf(HistoryMessageOne, w, messages, 1, Len(messages))

\* One iteration of the chats.update loop
ChatsUpdateOne(chatMap, chat) ==
    IF Str(chat, "id") # <<>> THEN MapSet(chatMap, chat.id, chat) ELSE chatMap

ChatsUpdateLoop(chatMap, chats) == ForOf(ChatsUpdateOne, chatMap, chats, 1, Len(chats))

---------------------------------------------------------------------------
\* decodeURIComponent and parseInt of a request's parameters

HexChars == DigitChars \cup {"A","B","C","D","E","F","a","b","c","d","e","f"}

\* The character a %XX escape stands for, for the escapes the requests below use
Unescape(hi, lo) ==
    CASE hi = "4" /\ lo = "0" -> "@"
      [] hi = "2" /\ lo = "5" -> "%"
      [] hi = "3" /\ lo \in {"A", "a"} -> ":"
      [] OTHER -> "?"

\* Whether decodeURIComponent(s) throws URIError: a % not followed by two hex digits
RECURSIVE DecodeThrows(_)
DecodeThrows(s) ==
    IF s = <<>> THEN FALSE
    ELSE IF Head(s) # "%" THEN DecodeThrows(Tail(s))
    ELSE IF Len(s) >= 3 /\ s[2] \in HexChars /\ s[3] \in HexChars
         THEN DecodeThrows(SubSeq(s, 4, Len(s)))
         ELSE TRUE

\* decodeURIComponent(s) when it does not throw
RECURSIVE DecodeURIComponent(_)
DecodeURIComponent(s) ==
    IF s = <<>> THEN <<>>
    ELSE IF Head(s) # "%" THEN <<Head(s)>> \o DecodeURIComponent(Tail(s))
    ELSE <<Unescape(s[2], s[3])>> \o DecodeURIComponent(SubSeq(s, 4, Len(s)))

\* parseInt(s) of a string with an optional sign and no leading blanks
ParseSignedInt(s) ==
    IF s # <<>> /\ Head(s) = "-"
    THEN LET v == ParseInt(Tail(s)) IN IF v.nan THEN v ELSE JsNum(0 - v.n)
    ELSE ParseInt(s)

Max(a, b) == IF a >= b THEN a ELSE b

Min(a, b) == IF a <= b THEN a ELSE b

---------------------------------------------------------------------------
\* getMessagesForChat

\* getTs of the sort comparator: msg.messageTimestamp when it is truthy, through
\* Number() when it is a string, and 0 otherwise; the legacy properties
\* msg.timestamp and msg.message.messageTimestamp are never set by the feeds
GetTs(msg) ==
    LET ts == Val(msg, "messageTimestamp")
    IN  IF Truthy(ts)
        THEN IF ts.type = "string" THEN ToNumber(ts.s) ELSE ts
        ELSE JsNum(0)

\* chat?.unreadCount || chat?.count || chat?.unread || 0
UnreadOf(chat) ==
    IF Num(chat, "unreadCount") # 0 THEN chat.unreadCount
    ELSE IF Num(chat, "count") # 0 THEN chat.count
    ELSE Num(chat, "unread")

\* The stored jids the fallback loop looks at before it breaks or throws: the
\* loop evaluates storedJid === jid || storedJid === decodeURIComponent(jid)
\* || decodeURIComponent(storedJid) === jid for each stored jid in Map order
JidMatches(storedJid, jid) ==
    \/ storedJid = jid
    \/ storedJid = DecodeURIComponent(jid)
    \/ DecodeURIComponent(storedJid) = jid

JidTestThrows(storedJid, jid) ==
    /\ storedJid # jid
    /\ \/ DecodeThrows(jid)
       \/ storedJid # DecodeURIComponent(jid) /\ DecodeThrows(storedJid)

\* The index of the first stored jid at which the loop stops, 0 if it runs through
RECURSIVE FirstStop(_, _, _)
FirstStop(storedJids, jid, i) ==
    IF i > Len(storedJids) THEN 0
    ELSE IF JidTestThrows(storedJids[i], jid) \/ JidMatches(storedJids[i], jid) THEN i
    ELSE FirstStop(storedJids, jid, i + 1)

\* getMessagesForChat(sessionName, jid, minCount) on the session's two Maps:
\* [threw, result, map], map being the message Map after the in-place sort
GetMessagesForChat(chats, msgs, jid, minCount) ==
    LET none == [threw |-> FALSE, result |-> <<>>, map |-> msgs.map]
    IN
    IF ~msgs.has THEN none
    ELSE LET messageMap == msgs.map
             exact == ArrayOf(messageMap, jid)
             storedJids == MapKeys(messageMap)
             stop == IF exact # <<>> THEN 0 ELSE FirstStop(storedJids, jid, 1)
         IN  IF stop # 0 /\ JidTestThrows(storedJids[stop], jid)
             THEN [threw |-> TRUE, result |-> <<>>, map |-> messageMap]
             ELSE LET matched == IF exact # <<>> THEN jid
                                 ELSE IF stop # 0 THEN storedJids[stop] ELSE jid
                      allMessages == ArrayOf(messageMap, matched)
                  IN  IF allMessages = <<>> THEN none
                      ELSE LET unreadCount == IF chats.has /\ MapHas(chats.map, jid)
                                              THEN UnreadOf(MapGet(chats.map, jid)) ELSE 0
                               need == Max(minCount, unreadCount)
                               start == Max(0, Len(allMessages) - need)
                               sorted == SortKey(allMessages, GetTs)
                           IN  [threw |-> FALSE,
                                result |-> SubSeq(sorted, start + 1, Len(sorted)),
                                map |-> MapSet(messageMap, matched, sorted)]

---------------------------------------------------------------------------
\* GET /api/:session/messages/:jid

MinMessages == 5

ResponseCeiling == 20

SmallLimit == 10

DayMs == 86400000

\* The ISO string of an instant (milliseconds), and null
Iso(ms) == [type |-> "iso", ms |-> ms]
Null == [type |-> "null"]

\* The timestamp of a formatted message
FormatTimestamp(msg) ==
    LET raw == Val(msg, "messageTimestamp")
        ts == IF raw.type = "string" THEN ParseInt(raw.s) ELSE raw
    IN  IF Truthy(raw) /\ ~ts.nan /\ ts.n > 0 THEN Iso(ts.n * 1000) ELSE Null

\* One element of messages.map(...): the display record of a message.  Of the
\* content properties only message.conversation is delivered by the feeds of
\* this model; mightBeUnread is kept by its truth value.
FormatMessage(msg, jid, now) ==
    LET fromMe == "key" \in DOMAIN msg /\ "fromMe" \in DOMAIN msg.key /\ msg.key.fromMe
        timestamp == FormatTimestamp(msg)
        isRecent == timestamp # Null /\ now - timestamp.ms < DayMs
        hasText == "message" \in DOMAIN msg /\ Str(msg.message, "conversation") # <<>>
    IN  [id |-> KeyId(msg),
         from |-> IF "key" \in DOMAIN msg /\ Str(msg.key, "remoteJid") # <<>>
                  THEN msg.key.remoteJid ELSE jid,
         fromMe |-> fromMe,
         text |-> IF hasText THEN msg.message.conversation ELSE <<>>,
         type |-> IF hasText THEN "text" ELSE "unknown",
         timestamp |-> timestamp,
         mightBeUnread |-> ~fromMe /\ isRecent,
         raw |-> msg]

\* .filter(msg => msg !== null && msg.id) after the map
FormatAll(messages, jid, now) ==
    SelectSeq(Tuple([i \in 1..Len(messages) |-> FormatMessage(messages[i], jid, now)]),
              LAMBDA f : f.id # <<>>)

TimeOf(f) == IF f.timestamp # Null THEN f.timestamp.ms ELSE 0

\* The comparator of formattedMessages.sort
DisplayCompare(a, b) ==
    IF a.mightBeUnread /\ ~b.mightBeUnread THEN 0 - 1
    ELSE IF ~a.mightBeUnread /\ b.mightBeUnread THEN 1
    ELSE TimeOf(b) - TimeOf(a)

\* The limit without the ceiling
FinalLimitUncapped(requestedLimit, length) ==
    Max(MinMessages, Min(requestedLimit, length))

\* Math.min(20, Math.max(minMessages, Math.min(requestedLimit, length)))
FinalLimit(requestedLimit, length) ==
    Min(ResponseCeiling, Max(MinMessages, Min(requestedLimit, length)))

Reverse(arr) == Tuple([i \in 1..Len(arr) |-> arr[Len(arr) + 1 - i]])

\* formattedMessages.sort(...); slice(0, finalLimit); reverse()
FinalMessages(formattedMessages, requestedLimit) ==
    LET sorted == SortCmp(formattedMessages, DisplayCompare)
        finalLimit == FinalLimit(requestedLimit, Len(sorted))
    IN  Reverse(SubSeq(sorted, 1, Min(finalLimit, Len(sorted))))

\* The messages the embedded fallback extracts from a chat's payload: each
\* unwrapped entry with a key and an id, its timestamp converted
ExtractEmbedded(rawMessages) ==
    LET kept == SelectSeq(rawMessages,
                          LAMBDA msgWrapper : /\ "key" \in DOMAIN Unwrap(msgWrapper)
                                              /\ Str(Unwrap(msgWrapper).key, "id") # <<>>)
    IN  Tuple([i \in 1..Len(kept) |-> NormalizeTimestamp(Unwrap(kept[i]))])

\* The chat after that extraction: the timestamps converted where they stand
ExtractedFrom(chat) ==
    LET rawMessages == EmbeddedMessages(chat)
    IN  SetEmbedded(chat,
                    Tuple([i \in 1..Len(rawMessages) |->
                             IF /\ "key" \in DOMAIN Unwrap(rawMessages[i])
                                /\ Str(Unwrap(rawMessages[i]).key, "id") # <<>>
                             THEN NormalizeEntry(rawMessages[i])
                             ELSE rawMessages[i]]))

\* One iteration of a write-back loop: push unless the id is already stored
WriteBackOne(w, jid, msg) ==
    LET stored == ArrayOf(w.store, jid)
    IN  IF Exists(stored, KeyId(msg)) THEN w
        ELSE Work(MapSet(w.store, jid, PushOnly(stored, msg)), w.chats,
                  Logged(w.log, jid, KeyId(msg)))

WriteBackLoop(w, jid, messages) ==
    ForOf(LAMBDA x, msg : WriteBackOne(x, jid, msg), w, messages, 1, Len(messages))

\* Strategy 2: the messages of sock.store.messages.get(jid), newest first
StoreKey(msg) == Minus(JsNum(0), GetTs(msg))

StoreMessages(store, jid, requestedLimit) ==
    IF store.has /\ MapHas(store.messages, jid)
    THEN LET byId == MapGet(store.messages, jid)
             storeArray == Tuple([i \in 1..Len(byId) |-> byId[i].v])
             sorted == SortKey(storeArray, StoreKey)
         IN  SubSeq(sorted, 1, Min(Max(MinMessages, requestedLimit), Len(sorted)))
    ELSE <<>>

\* Strategy 3: what becomes of `messages` and of the message Map when
\* sock.loadMessages(jid, 10) answers `live`.  The write-back first evaluates
\* the identifier messageStore, which the route's scope does not declare: the
\* ReferenceError lands in the catch of the fetch, after messages was assigned.
LiveFetch(w, jid, live) ==
    IF live.kind = "returns" /\ Len(live.messages) > 0
    THEN [messages |-> live.messages, w |-> w]
    ELSE [messages |-> <<>>, w |-> w]

\* The handler from its try block on, for a connected session, in the order of
\* its steps.  Each step yields [w, hasMessages, loadCalls, res]: the working
\* state after the handler, whether the session has a message Map, the number
\* of calls of loadMessages, and the answer.  rq holds the request: jid,
\* requestedLimit, now, live, store and the unreadCount of the chat record.

\* res.json({ success: true, messages: finalMessages, ... })
Respond(finalMessages, messages, rq) ==
    [status |-> 200, success |-> TRUE, messages |-> finalMessages,
     total |-> Len(finalMessages), unreadCount |-> rq.unreadCount,
     jid |-> rq.jid, warning |-> messages = <<>>, error |-> FALSE]

\* The formatting, the ordering and the answer, for what the strategies found
Finish(fetched, hasMessages, loadCalls, rq) ==
    [w |-> fetched.w, hasMessages |-> hasMessages, loadCalls |-> loadCalls,
     res |-> Respond(FinalMessages(FormatAll(fetched.messages, rq.jid, rq.now),
                                   rq.requestedLimit),
                     fetched.messages, rq)]

Strategy3Always(messages, w, hasMessages, rq) ==
    Finish(LiveFetch(w, rq.jid, rq.live), hasMessages, 1, rq)

\* if (messages.length === 0) { ... sock.loadMessages ... }
Strategy3(messages, w, hasMessages, rq) ==
    Finish(IF messages = <<>> THEN LiveFetch(w, rq.jid, rq.live)
           ELSE [messages |-> messages, w |-> w],
           hasMessages, IF messages = <<>> THEN 1 ELSE 0, rq)

\* if (messages.length === 0 && sock.store && sock.store.messages) { ... }
Strategy2(messages, w, hasMessages, rq) ==
    Strategy3(IF messages = <<>> THEN StoreMessages(rq.store, rq.jid, rq.requestedLimit)
              ELSE messages,
              w, hasMessages, rq)

\* The embedded fallback: the extracted messages, written back
EmbeddedFallbackOf(extracted, w, rq) ==
    Strategy2(extracted,
              WriteBackLoop(Work(MapSet(w.store, rq.jid, ArrayOf(w.store, rq.jid)),
                                 MapSet(w.chats, rq.jid,
                                        ExtractedFrom(MapGet(w.chats, rq.jid))),
                                 w.log),
                            rq.jid, extracted),
              TRUE, rq)

\* let messages = getMessagesForChat(...); if (messages.length > 0) ... else
\* the embedded fallback; a throw of the helper lands in the catch of the route
Strategy1(helper, rawMessages, chats, msgs, rq) ==
    IF helper.threw
    THEN [w |-> Work(msgs.map, chats.map, <<>>), hasMessages |-> msgs.has,
          loadCalls |-> 0,
          res |-> [status |-> 200, success |-> TRUE, messages |-> <<>>, total |-> 0,
                   unreadCount |-> 0, jid |-> rq.jid, warning |-> TRUE, error |-> TRUE]]
    ELSE IF helper.result = <<>> /\ Len(rawMessages) > 0
    THEN EmbeddedFallbackOf(ExtractEmbedded(rawMessages),
                            Work(helper.map, chats.map, <<>>), rq)
    ELSE Strategy2(helper.result, Work(helper.map, chats.map, <<>>), msgs.has, rq)

\* The chat record of jid in the directory, a record without properties when
\* there is none
ChatRecord(chats, jid) ==
    IF chats.has /\ MapHas(chats.map, jid) THEN MapGet(chats.map, jid) ELSE [id |-> <<>>]

GetMessagesBody(chats, msgs, store, jid, requestedLimit, live, now) ==
    Strategy1(GetMessagesForChat(chats, msgs, jid, Max(MinMessages, requestedLimit)),
              EmbeddedMessages(ChatRecord(chats, jid)),
              chats, msgs,
              [jid |-> jid, requestedLimit |-> requestedLimit, now |-> now, live |-> live,
               store |-> store, unreadCount |-> UnreadOf(ChatRecord(chats, jid))])

---------------------------------------------------------------------------
\* GET /api/:session/chats: the reconciler

\* a || b of two strings
OrStr(a, b) == IF a # <<>> THEN a ELSE b

\* s.replace(sub, ''): s without the first occurrence of sub
RemoveFirst(s, sub) ==
    IF Includes(s, sub)
    THEN LET i == CHOOSE i \in 1..(Len(s) - Len(sub) + 1) :
                     /\ SubSeq(s, i, i + Len(sub) - 1) = sub
                     /\ \A j \in 1..(i - 1) : SubSeq(s, j, j + Len(sub) - 1) # sub
         IN  SubSeq(s, 1, i - 1) \o SubSeq(s, i + Len(sub), Len(s))
    ELSE s

\* a.localeCompare(b) of names made of blanks, the punctuation of a chat id,
\* digits and letters: by the letters first (blank, punctuation, then digits,
\* then the alphabet), then the shorter first, then lower case before upper case
Letters ==
    <<"a","b","c","d","e","f","g","h","i","j","k","l","m",
      "n","o","p","q","r","s","t","u","v","w","x","y","z">>
Capitals ==
    <<"A","B","C","D","E","F","G","H","I","J","K","L","M",
      "N","O","P","Q","R","S","T","U","V","W","X","Y","Z">>

Primary(c) ==
    IF c = " " THEN 0
    ELSE IF c \in DigitChars THEN 4 + DigitVal(c)
    ELSE IF \E i \in 1..Len(Letters) : Letters[i] = c
         THEN 13 + (CHOOSE i \in 1..Len(Letters) : Letters[i] = c)
    ELSE IF \E i \in 1..Len(Capitals) : Capitals[i] = c
         THEN 13 + (CHOOSE i \in 1..Len(Capitals) : Capitals[i] = c)
    ELSE IF c = "." THEN 1
    ELSE IF c = "@" THEN 2
    ELSE 3

LocaleCompare(a, b) ==
    LET n == Min(Len(a), Len(b))
        differ == {i \in 1..n : Primary(a[i]) # Primary(b[i])}
        cased == {i \in 1..n : a[i] # b[i]}
        First(set) == CHOOSE i \in set : \A j \in set : i <= j
    IN  IF differ # {}
        THEN (IF Primary(a[First(differ)]) < Primary(b[First(differ)]) THEN 0 - 1 ELSE 1)
        ELSE IF Len(a) # Len(b) THEN (IF Len(a) < Len(b) THEN 0 - 1 ELSE 1)
        ELSE IF cased # {}
             THEN (IF \E i \in 1..Len(Letters) : Letters[i] = a[First(cased)]
                   THEN 0 - 1 ELSE 1)
        ELSE 0

\* chat.id || chat.jid
ChatIdOf(chat) == OrStr(Str(chat, "id"), Str(chat, "jid"))

\* chatId === 'status@broadcast' || chatId.includes('broadcast') || chatId === 'server@c.us'
SkippedChat(chatId) ==
    chatId = StatusBroadcast \/ Includes(chatId, Broadcast) \/ chatId = ServerCUs

\* x.name || x.notify || x.pushName
NameOf(obj) == OrStr(Str(obj, "name"), OrStr(Str(obj, "notify"), Str(obj, "pushName")))

\* chatId.match(/^(\d+)@lid$/)[1], "" when there is no match
LidDigits(chatId) ==
    LET head == SubSeq(chatId, 1, Len(chatId) - Len(AtLid))
    IN  IF EndsWith(chatId, AtLid) /\ head # <<>> /\ DigitPrefix(head) = head
        THEN head ELSE <<>>

MinLidDigits == 10

MaxLidDigits == 15

\* A first pass that keeps every anonymous id as it is
ResolveRaw(chat, store) ==
    IF EndsWith(ChatIdOf(chat), AtGUs)
    THEN [known |-> TRUE, canonicalId |-> ChatIdOf(chat), type |-> "group", name |-> Group]
    ELSE IF EndsWith(ChatIdOf(chat), AtSWhatsappNet) \/ EndsWith(ChatIdOf(chat), AtLid)
    THEN [known |-> TRUE, canonicalId |-> ChatIdOf(chat), type |-> "individual",
          name |-> Unknown]
    ELSE [known |-> FALSE]

\* The canonical id, the type and the name the first pass gives a chat;
\* known is FALSE for an id of none of the three formats
Resolve(chat, store) ==
    LET chatId == ChatIdOf(chat)
        contact == IF store.has /\ MapHas(store.contacts, chatId)
                   THEN MapGet(store.contacts, chatId) ELSE [id |-> <<>>]
        resolvedName == NameOf(contact)
        resolvedPhone == Str(contact, "phoneNumber")
        digits == LidDigits(chatId)
    IN  IF EndsWith(chatId, AtGUs)
        THEN [known |-> TRUE, canonicalId |-> chatId, type |-> "group",
              name |-> OrStr(Str(chat, "subject"), OrStr(Str(chat, "name"), Group))]
        ELSE IF EndsWith(chatId, AtSWhatsappNet)
        THEN [known |-> TRUE, canonicalId |-> chatId, type |-> "individual",
              name |-> OrStr(NameOf(chat),
                             OrStr(SplitHead(chatId, ":"), RemoveFirst(chatId, AtSWhatsappNet)))]
        ELSE IF EndsWith(chatId, AtLid)
        THEN IF resolvedPhone # <<>>
             THEN [known |-> TRUE, canonicalId |-> resolvedPhone \o AtSWhatsappNet,
                   type |-> "individual", name |-> OrStr(resolvedName, resolvedPhone)]
             ELSE IF Len(digits) >= MinLidDigits /\ Len(digits) <= MaxLidDigits
             THEN [known |-> TRUE, canonicalId |-> digits \o AtSWhatsappNet,
                   type |-> "individual", name |-> OrStr(resolvedName, digits)]
             ELSE [known |-> TRUE, canonicalId |-> chatId, type |-> "individual",
                   name |-> OrStr(resolvedName, OrStr(NameOf(chat), UnknownContact))]
        ELSE [known |-> FALSE]

\* chat.conversationTimestamp ? new Date(chat.conversationTimestamp * 1000).toISOString() : null;
\* toISOString throws for a timestamp that is not a number
LastMessageTime(chat) ==
    LET raw == Val(chat, "conversationTimestamp")
        ts == IF raw.type = "string" THEN ToNumber(raw.s) ELSE raw
    IN  IF ~Truthy(raw) THEN [threw |-> FALSE, time |-> Null]
        ELSE IF ts.nan THEN [threw |-> TRUE, time |-> Null]
        ELSE [threw |-> FALSE, time |-> Iso(ts.n * 1000)]

\* const formattedChat = { ... }
FormattedChat(chat, resolved) ==
    [id |-> resolved.canonicalId,
     originalId |-> ChatIdOf(chat),
     name |-> resolved.name,
     type |-> resolved.type,
     unreadCount |-> IF Num(chat, "unreadCount") # 0 THEN chat.unreadCount
                     ELSE Num(chat, "unread"),
     lastMessageTime |-> LastMessageTime(chat).time,
     pinned |-> IF Truthy(Val(chat, "pinned")) THEN chat.pinned ELSE JsFalse,
     raw |-> chat]

\* A merge that overwrites the unread count, and one that takes the incoming name
MergeIntoOverwriting(existing, formattedChat) ==
    [existing EXCEPT !.unreadCount = formattedChat.unreadCount]

MergeIntoRenaming(existing, formattedChat) ==
    [existing EXCEPT !.name = formattedChat.name,
                     !.unreadCount = @ + formattedChat.unreadCount]

\* A merge that takes the time and the payload of every incoming record that
\* has a time
MergeIntoLast(existing, formattedChat) ==
    [existing EXCEPT
        !.name = IF @ = Unknown /\ formattedChat.name # Unknown
                 THEN formattedChat.name ELSE @,
        !.unreadCount = @ + formattedChat.unreadCount,
        !.lastMessageTime = IF formattedChat.lastMessageTime # Null
                            THEN formattedChat.lastMessageTime ELSE @,
        !.raw = IF formattedChat.lastMessageTime # Null THEN formattedChat.raw ELSE @]

\* The merge of formattedChat into the record the Map holds for its id
MergeInto(existing, formattedChat) ==
    LET newer == /\ formattedChat.lastMessageTime # Null
                 /\ \/ existing.lastMessageTime = Null
                    \/ formattedChat.lastMessageTime.ms > existing.lastMessageTime.ms
    IN  [existing EXCEPT
            !.name = IF @ = Unknown /\ formattedChat.name # Unknown
                     THEN formattedChat.name ELSE @,
            !.unreadCount = @ + formattedChat.unreadCount,
            !.lastMessageTime = IF newer THEN formattedChat.lastMessageTime ELSE @,
            !.raw = IF newer THEN formattedChat.raw ELSE @]

\* A first pass that keeps every record apart
MergeOneApart(mergedChats, formattedChat) ==
    Append(mergedChats, [k |-> formattedChat.id, v |-> formattedChat])

\* if (mergedChats.has(canonicalId)) { ... } else mergedChats.set(canonicalId, formattedChat)
MergeOne(mergedChats, formattedChat) ==
    IF MapHas(mergedChats, formattedChat.id)
    THEN MapSet(mergedChats, formattedChat.id,
                MergeInto(MapGet(mergedChats, formattedChat.id), formattedChat))
    ELSE MapSet(mergedChats, formattedChat.id, formattedChat)

\* One iteration of the first pass; acc is [merged, threw]
FirstPassOne(acc, chat, store) ==
    LET chatId == ChatIdOf(chat)
        resolved == Resolve(chat, store)
    IN  IF acc.threw \/ chatId = <<>> \/ SkippedChat(chatId) \/ ~resolved.known THEN acc
        ELSE IF LastMessageTime(chat).threw THEN [acc EXCEPT !.threw = TRUE]
        ELSE [acc EXCEPT !.merged = MergeOne(@, FormattedChat(chat, resolved))]

FirstPass(chats, store) ==
    ForOf(LAMBDA acc, chat : FirstPassOne(acc, chat, store),
          [merged |-> <<>>, threw |-> FALSE], chats, 1, Len(chats))

\* The comparator of formattedChats.sort
ChatsCompare(a, b) ==
    IF a.lastMessageTime # Null /\ b.lastMessageTime # Null
    THEN b.lastMessageTime.ms - a.lastMessageTime.ms
    ELSE IF a.lastMessageTime # Null THEN 0 - 1
    ELSE IF b.lastMessageTime # Null THEN 1
    ELSE LocaleCompare(a.name, b.name)

\* Method 4: the chats made of what sock.groupFetchAllParticipating() answers
GroupChat(group) ==
    [id |-> group.id, name |-> OrStr(Str(group, "subject"), Group),
     participants |-> IF "participants" \in DOMAIN group THEN group.participants ELSE <<>>,
     type |-> "group"]
    @@ (IF "subject" \in DOMAIN group THEN [subject |-> group.subject] ELSE <<>>)

GroupChats(groups) ==
    LET kept == SelectSeq(groups, LAMBDA group : EndsWith(group.id, AtGUs))
    IN  Tuple([i \in 1..Len(kept) |-> GroupChat(kept[i])])

\* The handler from its try block on, for a connected session: the answer.
\* sock.chats is not a property of the handle and the chats of the store stay
\* empty, so Methods 2 and 3 find nothing.
GetChatsBody(chats, store, fetched) ==
    LET captured == IF chats.has THEN Tuple([i \in 1..Len(chats.map) |-> chats.map[i].v])
                    ELSE <<>>
        fetchGroups == captured = <<>>
        all == IF fetchGroups /\ fetched.kind = "returns" THEN GroupChats(fetched.groups)
               ELSE captured
        source == IF fetchGroups /\ fetched.kind = "returns" THEN "groupFetchAllParticipating"
                  ELSE IF chats.has THEN "event-captured" ELSE "none"
        pass == FirstPass(all, store)
        merged == Tuple([i \in 1..Len(pass.merged) |-> pass.merged[i].v])
        formattedChats == SortCmp(merged, ChatsCompare)
    IN  IF pass.threw THEN [status |-> 500]
        ELSE [status |-> 200, success |-> TRUE, chats |-> formattedChats,
              total |-> Len(formattedChats), source |-> source,
              rawChatsCount |-> Len(all)]

---------------------------------------------------------------------------
\* The registry and the connection lifecycle (startSocket and its handlers)

\* Session names of the model
NameA == <<"a">>
NameB == <<"b">>
Names == {NameA, NameB}

NoMap == [has |-> FALSE, map |-> <<>>]
NoStore == [has |-> FALSE, contacts |-> <<>>, messages |-> <<>>]

\* A handle: live until its 'close' event has been handled; user is sock.user,
\* loggedOut whether that event's status code was DisconnectReason.loggedOut
NewSock(name) == [name |-> name, user |-> FALSE, state |-> "live", loggedOut |-> FALSE]

SockIds == 1..Len(socks)

Live(h) == h \in SockIds /\ socks[h].state # "closed"

\* sockets.get(name) && sockets.get(name).user
Connected(name) == sockets[name] # 0 /\ socks[sockets[name]].user

\* The value of last after a step that handled no HTTP request
NoRequest == [op |-> "none"]

\* The state of a process that has just started, with the session directories
\* an earlier run left behind
Init ==
    /\ sockets = [n \in Names |-> 0]
    /\ socks = <<>>
    /\ qrCodes = [n \in Names |-> 0]
    /\ sessionChats = [n \in Names |-> NoMap]
    /\ sessionMessages = [n \in Names |-> NoMap]
    /\ sessionStores = [n \in Names |-> NoStore]
    /\ disk \in [Names -> {[dir |-> FALSE, creds |-> FALSE], [dir |-> TRUE, creds |-> TRUE]}]
    /\ timers = [n \in Names |-> 0]
    /\ renders = <<>>
    /\ last = NoRequest
    /\ pushed = [n \in Names |-> <<>>]

FreshLedger(entry) == [has |-> TRUE, map |-> <<>>]

\* if (!sessionMessages.has(sessionName)) sessionMessages.set(sessionName, new Map())
EnsureLedger(entry) == IF entry.has THEN entry ELSE [has |-> TRUE, map |-> <<>>]

\* Bounds of the lifecycle: handles made, reconnect timers pending, renders in flight
MaxSocks == 3
MaxTimers == 2
MaxRenders == 1

\* startSocket(sessionName, forceNew), for a session with no registered handle
\* to end: the purge of the session directory, mkdirSync, the auth state, the
\* store, makeWASocket and the sessionMessages entry.  The awaits of the auth
\* state and of the version are not interleaved with other steps here.
StartSocket(name, forceNew) ==
    /\ Len(socks) < MaxSocks
    /\ ~(forceNew /\ disk[name].dir /\ sockets[name] # 0)
    /\ socks' = Append(socks, NewSock(name))
    /\ disk' = [disk EXCEPT ![name] =
                  IF forceNew /\ disk[name].dir THEN [dir |-> TRUE, creds |-> FALSE]
                  ELSE [dir |-> TRUE, creds |-> disk[name].creds]]
    /\ sessionStores' = [sessionStores EXCEPT ![name].has = TRUE]
    /\ sessionMessages' = [sessionMessages EXCEPT ![name] = EnsureLedger(@)]

\* startSocket(sessionName, true) while a handle is registered and the session
\* directory exists: existingSock.end(), sockets.delete, rmSync, then as above
StartSocketOver(name) ==
    /\ Len(socks) < MaxSocks
    /\ disk[name].dir /\ sockets[name] # 0
    /\ socks' = Append([socks EXCEPT ![sockets[name]].state =
                            IF @ = "closed" THEN "closed" ELSE "ended"],
                       NewSock(name))
    /\ sockets' = [sockets EXCEPT ![name] = 0]
    /\ disk' = [disk EXCEPT ![name] = [dir |-> TRUE, creds |-> FALSE]]
    /\ sessionStores' = [sessionStores EXCEPT ![name].has = TRUE]
    /\ sessionMessages' = [sessionMessages EXCEPT ![name] = EnsureLedger(@)]

\* Everything a request can change, but its own answer
serverState == <<sockets, socks, qrCodes, sessionChats, sessionMessages, sessionStores,
                 disk, timers, renders, pushed>>

\* A handler that answers and changes nothing
Reply(response) == last' = response /\ UNCHANGED serverState

\* /^[a-zA-Z0-9_-]+$/.test(sessionName)
ValidName(name) ==
    /\ name # <<>>
    /\ \A i \in 1..Len(name) :
          \/ name[i] \in DigitChars \cup {"_", "-"}
          \/ \E j \in 1..Len(Letters) : name[i] \in {Letters[j], Capitals[j]}

\* POST /api/:session/start-session
StartSession(name, forceNew) ==
    IF ~ValidName(name)
    THEN Reply([op |-> "start-session", name |-> name, forceNew |-> forceNew,
                res |-> [status |-> 400]])
    ELSE IF Connected(name) /\ ~forceNew
    THEN Reply([op |-> "start-session", name |-> name, forceNew |-> forceNew,
                res |-> [status |-> 200, started |-> FALSE]])
    ELSE /\ \/ StartSocket(name, forceNew) /\ UNCHANGED sockets
            \/ forceNew /\ StartSocketOver(name)
         /\ last' = [op |-> "start-session", name |-> name, forceNew |-> forceNew,
                     res |-> [status |-> 200, started |-> TRUE]]
         /\ UNCHANGED <<qrCodes, sessionChats, timers, renders, pushed>>

\* The reconnect timer of a transient close fires: startSocket(sessionName)
TimerFire(name) ==
    /\ timers[name] > 0
    /\ timers' = [timers EXCEPT ![name] = @ - 1]
    /\ StartSocket(name, FALSE)
    /\ last' = NoRequest
    /\ UNCHANGED <<sockets, qrCodes, sessionChats, renders, pushed>>

\* The reconnect timer fires and startSocket(sessionName) rejects before it
\* has made a handle: mkdirSync throws, or, the directory made, the auth state
\* or makeWASocket does.  The callback of the timer neither awaits nor catches
\* the promise: nothing of the application logs the rejection, and no further
\* timer is set.
TimerFireRejects(name, made) ==
    /\ timers[name] > 0
    /\ timers' = [timers EXCEPT ![name] = @ - 1]
    /\ disk' = [disk EXCEPT ![name].dir = @ \/ made]
    /\ last' = [op |-> "none", event |-> "reconnect", name |-> name,
                rejected |-> TRUE, logged |-> FALSE]
    /\ UNCHANGED <<sockets, socks, qrCodes, sessionChats, sessionMessages,
                   sessionStores, renders, pushed>>

\* connection.update { connection: 'connecting' }
ConnConnecting(h) ==
    /\ socks[h].state = "live"
    /\ sockets' = [sockets EXCEPT ![socks[h].name] = IF @ = 0 THEN h ELSE @]
    /\ UNCHANGED <<socks, qrCodes, sessionChats, sessionMessages, sessionStores,
                   disk, timers, renders, pushed>>
    /\ last' = NoRequest

\* connection.update { qr }: the handler up to its await of QRCode.toDataURL
ConnQrStep(h) ==
    /\ socks[h].state = "live" /\ ~socks[h].user
    /\ Len(renders) < MaxRenders
    /\ renders' = Append(renders, [name |-> socks[h].name, sock |-> h])
    /\ UNCHANGED <<sockets, socks, qrCodes, sessionChats, sessionMessages,
                   sessionStores, disk, timers, pushed>>

\* The same while no request is in progress
ConnQr(h) == ConnQrStep(h) /\ last' = NoRequest

\* QRCode.toDataURL resolves: qrCodes.set(sessionName, base64QR); when it
\* rejects the catch only logs
RenderDoneStep(i, ok) ==
    /\ i \in 1..Len(renders)
    /\ qrCodes' = IF ok THEN [qrCodes EXCEPT ![renders[i].name] = renders[i].sock]
                  ELSE qrCodes
    /\ renders' = SubSeq(renders, 1, i - 1) \o SubSeq(renders, i + 1, Len(renders))
    /\ UNCHANGED <<sockets, socks, sessionChats, sessionMessages, sessionStores,
                   disk, timers, pushed>>

RenderDone(i, ok) == RenderDoneStep(i, ok) /\ last' = NoRequest

SaveCredsNever(d) == d

\* await saveCreds(): writes creds.json into the session directory; without
\* the directory the write rejects and nothing is written
SaveCreds(d) == [d EXCEPT !.creds = d.dir]

\* The value of last after a step that handled an event whose handler calls
\* saveCreds inside try/catch: the number of calls, and whether the catch ran
Saved(event, h) ==
    [op |-> "none", event |-> event, sock |-> h, saveCreds |-> 1,
     caught |-> ~disk[socks[h].name].dir]

\* creds.update: try { await saveCreds() } catch (err) { logger.error(...) }
CredsUpdate(h) ==
    /\ socks[h].state = "live"
    /\ disk' = [disk EXCEPT ![socks[h].name] = SaveCreds(@)]
    /\ UNCHANGED <<sockets, socks, qrCodes, sessionChats, sessionMessages, sessionStores,
                   timers, renders, pushed>>
    /\ last' = Saved("creds.update", h)

\* connection.update { connection: 'open' }; the library has set sock.user.
\* The handler ends with try { await saveCreds() } catch (err) { log }.
ConnOpen(h) ==
    /\ socks[h].state = "live"
    /\ socks' = [socks EXCEPT ![h].user = TRUE]
    /\ sockets' = [sockets EXCEPT ![socks[h].name] = h]
    /\ qrCodes' = [qrCodes EXCEPT ![socks[h].name] = 0]
    /\ disk' = [disk EXCEPT ![socks[h].name] = SaveCreds(@)]
    /\ UNCHANGED <<sessionChats, sessionMessages, sessionStores, timers, renders, pushed>>
    /\ last' = Saved("open", h)

ShouldReconnectNever(loggedOut) == FALSE

\* shouldReconnect = statusCode !== DisconnectReason.loggedOut
ShouldReconnect(loggedOut) == ~loggedOut

\* A close branch that clears the pending QR and the Chat Directory of every
\* session
ConnCloseAll(h, loggedOut) ==
    /\ Live(h)
    /\ ~loggedOut => timers[socks[h].name] < MaxTimers
    /\ socks' = [socks EXCEPT ![h].state = "closed", ![h].loggedOut = loggedOut]
    /\ sockets' = [sockets EXCEPT ![socks[h].name] = 0]
    /\ qrCodes' = [n \in DOMAIN qrCodes |-> 0]
    /\ sessionChats' = [n \in DOMAIN sessionChats |-> NoMap]
    /\ timers' = [timers EXCEPT ![socks[h].name] = IF ~loggedOut THEN @ + 1 ELSE @]
    /\ UNCHANGED <<sessionMessages, sessionStores, disk, renders, pushed>>

\* connection.update { connection: 'close', lastDisconnect }
ConnCloseStep(h, loggedOut) ==
    /\ Live(h)
    /\ ShouldReconnect(loggedOut) => timers[socks[h].name] < MaxTimers
    /\ socks' = [socks EXCEPT ![h].state = "closed", ![h].loggedOut = loggedOut]
    /\ sockets' = [sockets EXCEPT ![socks[h].name] = 0]
    /\ qrCodes' = [qrCodes EXCEPT ![socks[h].name] = 0]
    /\ sessionChats' = [sessionChats EXCEPT ![socks[h].name] = NoMap]
    /\ timers' = [timers EXCEPT ![socks[h].name] =
                      IF ShouldReconnect(loggedOut) THEN @ + 1 ELSE @]
    /\ UNCHANGED <<sessionMessages, sessionStores, disk, renders, pushed>>

ConnClose(h, loggedOut) == ConnCloseStep(h, loggedOut) /\ last' = NoRequest

---------------------------------------------------------------------------
\* The event feeds of a handle

\* The fallback store's messages.upsert listener (createInMemoryStore.bind)
StoreUpsertOne(storeMessages, msg) ==
    LET jid == msg.key.remoteJid
        byId == ArrayOf(storeMessages, jid)
    IN  MapSet(storeMessages, jid, MapSet(byId, Str(msg.key, "id"), msg))

StoreUpsertLoop(storeMessages, messages) ==
    ForOf(StoreUpsertOne, storeMessages, messages, 1, Len(messages))

StoreUpsert(store, messages, type) ==
    IF type \in {"append", "notify"}
    THEN [store EXCEPT !.messages = StoreUpsertLoop(store.messages, messages)]
    ELSE store

\* Object.assign(target, source)
Assign(target, source) ==
    [f \in DOMAIN target \cup DOMAIN source |->
        IF f \in DOMAIN source THEN source[f] ELSE target[f]]

\* The fallback store's contacts.upsert listener
StoreContactsUpsertOne(contacts, contact) ==
    MapSet(contacts, contact.id,
           Assign(IF MapHas(contacts, contact.id) THEN MapGet(contacts, contact.id)
                  ELSE [id |-> contact.id],
                  contact))

StoreContactsUpsert(contacts, list) ==
    ForOf(StoreContactsUpsertOne, contacts, list, 1, Len(list))

\* The fallback store's contacts.update listener
StoreContactsUpdateOne(contacts, update) ==
    IF MapHas(contacts, update.id)
    THEN MapSet(contacts, update.id, Assign(MapGet(contacts, update.id), update))
    ELSE contacts

StoreContactsUpdate(contacts, updates) ==
    ForOf(StoreContactsUpdateOne, contacts, updates, 1, Len(updates))

\* messages.upsert { messages, type }: the store's listener, then startSocket's
MessagesUpsert(h, messages, type) ==
    LET name == socks[h].name
        w == UpsertLoop(Work(sessionMessages[name].map, sessionChats[name].map, <<>>),
                        messages)
        touched == \E i \in 1..Len(messages) :
                      "key" \in DOMAIN messages[i] /\ Str(messages[i].key, "remoteJid") # <<>>
    IN  /\ socks[h].state = "live"
        /\ Len(messages) > 0
        /\ sessionStores' = [sessionStores EXCEPT ![name] = StoreUpsert(@, messages, type)]
        /\ sessionMessages' = [sessionMessages EXCEPT ![name].map = w.store]
        /\ sessionChats' = [sessionChats EXCEPT ![name] =
                               [has |-> @.has \/ touched, map |-> w.chats]]
        /\ pushed' = [pushed EXCEPT ![name] = @ \o w.log]
        /\ UNCHANGED <<sockets, socks, qrCodes, disk, timers, renders>>
        /\ last' = NoRequest

\* messaging-history.set { chats, messages }
HistorySet(h, history) ==
    LET name == socks[h].name
        w0 == Work(sessionMessages[name].map, sessionChats[name].map, <<>>)
        w1 == IF "chats" \in DOMAIN history THEN HistoryChatsLoop(w0, history.chats) ELSE w0
        w2 == IF "messages" \in DOMAIN history
              THEN HistoryMessagesLoop(w1, history.messages) ELSE w1
    IN  /\ socks[h].state = "live"
        /\ sessionMessages' = [sessionMessages EXCEPT ![name] = [has |-> TRUE, map |-> w2.store]]
        /\ sessionChats' = [sessionChats EXCEPT ![name] = [has |-> TRUE, map |-> w2.chats]]
        /\ pushed' = [pushed EXCEPT ![name] = @ \o w2.log]
        /\ UNCHANGED <<sockets, socks, qrCodes, sessionStores, disk, timers, renders>>
        /\ last' = NoRequest

\* chats.update [chat, ...]
ChatsUpdate(h, chats) ==
    LET name == socks[h].name
    IN  /\ socks[h].state = "live"
        /\ sessionChats' = [sessionChats EXCEPT ![name] =
                               [has |-> TRUE, map |-> ChatsUpdateLoop(@.map, chats)]]
        /\ UNCHANGED <<sockets, socks, qrCodes, sessionMessages, sessionStores, disk,
                       timers, renders, pushed>>
        /\ last' = NoRequest

\* contacts.upsert [contact, ...], handled by the store bound to the handle
ContactsUpsert(h, list) ==
    LET name == socks[h].name
    IN  /\ socks[h].state = "live"
        /\ sessionStores' = [sessionStores EXCEPT ![name].contacts =
                                StoreContactsUpsert(@, list)]
        /\ UNCHANGED <<sockets, socks, qrCodes, sessionChats, sessionMessages, disk,
                       timers, renders, pushed>>
        /\ last' = NoRequest

\* contacts.update: the listener of the store bound to the handle; the
\* handler of startSocket only logs
ContactsUpdate(h, updates) ==
    LET name == socks[h].name
    IN  /\ socks[h].state = "live"
        /\ sessionStores' = [sessionStores EXCEPT ![name].contacts =
                                StoreContactsUpdate(@, updates)]
        /\ UNCHANGED <<sockets, socks, qrCodes, sessionChats, sessionMessages, disk,
                       timers, renders, pushed>>
        /\ last' = NoRequest

\* GET /api/:session/messages/:jid?limit=, with the instant Date.now() gives and
\* the outcome of sock.loadMessages, should the handler call it.  param is
\* req.params.jid; limit is req.query.limit, <<>> when absent.
\* decodeURIComponent(req.params.jid) runs before the guard and outside the try:
\* when it throws the async handler rejects, and the request is answered 500 by
\* the framework's error handler or, where the framework does not await its
\* handlers, not at all (status 0).
\* parseInt(req.query.limit) || 20
RequestedLimit(limit) ==
    IF ParseSignedInt(limit).nan \/ ParseSignedInt(limit).n = 0 THEN ResponseCeiling
    ELSE ParseSignedInt(limit).n

\* What the handler leaves behind: the Maps it changed, and its answer
Answer(name, request, out) ==
    /\ sessionChats' = [sessionChats EXCEPT ![name].map = out.w.chats]
    /\ sessionMessages' = [sessionMessages EXCEPT ![name] =
                              [has |-> out.hasMessages, map |-> out.w.store]]
    /\ pushed' = [pushed EXCEPT ![name] = @ \o out.w.log]
    /\ last' = request @@ [res |-> out.res, loadCalls |-> out.loadCalls]

UncaughtOutcomes == {[status |-> 500], [status |-> 0]}

GetMessages(name, param, limit, live, now) ==
    /\ IF DecodeThrows(param)
       THEN /\ \E res \in UncaughtOutcomes :
                  last' = [op |-> "GET messages", name |-> name, param |-> param,
                           limit |-> limit, loadLimit |-> SmallLimit,
                           res |-> res, loadCalls |-> 0]
            /\ UNCHANGED <<sessionChats, sessionMessages, pushed>>
       ELSE IF ~Connected(name)
       THEN /\ last' = [op |-> "GET messages", name |-> name, param |-> param,
                        limit |-> limit, loadLimit |-> SmallLimit,
                        res |-> [status |-> 400], loadCalls |-> 0]
            /\ UNCHANGED <<sessionChats, sessionMessages, pushed>>
       ELSE Answer(name,
                   [op |-> "GET messages", name |-> name, param |-> param,
                    limit |-> limit, loadLimit |-> SmallLimit,
                    jid |-> DecodeURIComponent(param)],
                   GetMessagesBody(sessionChats[name], sessionMessages[name],
                                   sessionStores[name], DecodeURIComponent(param),
                                   RequestedLimit(limit), live, now))
    /\ UNCHANGED <<sockets, socks, qrCodes, sessionStores, disk, timers, renders>>

\* GET messages in the steps of its live fetch.  The handler up to
\* `await sock.loadMessages(jid, smallLimit)`, for a request that reaches it:
\* the parameter decodes, the session is connected and the first two strategies
\* found nothing.  The request stays unanswered (status 0) across the await,
\* with the unreadCount the handler read from the chat record.
GetMessagesAwaits(name, param, limit, now) ==
    /\ ~DecodeThrows(param)
    /\ Connected(name)
    /\ LET out == GetMessagesBody(sessionChats[name], sessionMessages[name],
                                  sessionStores[name], DecodeURIComponent(param),
                                  RequestedLimit(limit), [kind |-> "throws"], now)
       IN  /\ out.loadCalls = 1
           /\ Answer(name,
                     [op |-> "GET messages", name |-> name, param |-> param,
                      limit |-> limit, loadLimit |-> SmallLimit,
                      jid |-> DecodeURIComponent(param), now |-> now,
                      unreadCount |-> out.res.unreadCount,
                      live |-> [kind |-> "pending"]],
                     [out EXCEPT !.res = [status |-> 0]])
    /\ UNCHANGED <<sockets, socks, qrCodes, sessionStores, disk, timers, renders>>

\* The request the handler of GET messages is awaiting loadMessages for
Awaiting == last.op = "GET messages" /\ last.res.status = 0

\* The promise of sock.loadMessages settles: it resolves with messages, or
\* rejects.  The handler sets no timer beside the call, so nothing else ends
\* the await.
LoadMessagesSettles(live) ==
    /\ Awaiting
    /\ last.live.kind = "pending"
    /\ last' = [last EXCEPT !.live = live]
    /\ UNCHANGED serverState

\* The handler after the await: what the call gave, its write-back, the
\* formatting and the answer
Resumed ==
    Finish(LiveFetch(Work(sessionMessages[last.name].map, sessionChats[last.name].map, <<>>),
                     last.jid, last.live),
           sessionMessages[last.name].has, 1,
           [jid |-> last.jid, requestedLimit |-> RequestedLimit(last.limit),
            now |-> last.now, live |-> last.live, store |-> sessionStores[last.name],
            unreadCount |-> last.unreadCount])

GetMessagesResumes ==
    /\ Awaiting
    /\ last.live.kind # "pending"
    /\ last' = [last EXCEPT !.res = Resumed.res]
    /\ sessionMessages' = [sessionMessages EXCEPT ![last.name].map = Resumed.w.store]
    /\ UNCHANGED <<sockets, socks, qrCodes, sessionChats, sessionStores, disk, timers,
                   renders, pushed>>

\* GET /api/:session/chats, with what sock.groupFetchAllParticipating() answers
\* should the handler call it
GetChats(name, fetched) ==
    /\ last' = [op |-> "GET chats", name |-> name,
                calls |-> IF Connected(name)
                             /\ (~sessionChats[name].has \/ sessionChats[name].map = <<>>)
                          THEN <<"groupFetchAllParticipating">> ELSE <<>>,
                res |-> IF ~Connected(name) THEN [status |-> 400]
                        ELSE GetChatsBody(sessionChats[name], sessionStores[name], fetched)]
    /\ UNCHANGED <<sockets, socks, qrCodes, sessionChats, sessionMessages, sessionStores,
                   disk, timers, renders, pushed>>

---------------------------------------------------------------------------
\* The authentication middleware and the other routes

Bearer == <<"B","e","a","r","e","r"," ">>

\* SECRET_TOKEN, as the environment of the model configures it
SecretToken == <<"t","k">>

\* String.prototype.startsWith
StartsWith(s, prefix) == Len(s) >= Len(prefix) /\ SubSeq(s, 1, Len(prefix)) = prefix

\* String.prototype.substring(from)
Substring(s, from) == SubSeq(s, from + 1, Len(s))

AuthorizedScheme(authHeader) == authHeader # <<>> /\ StartsWith(authHeader, Bearer)

\* authenticate: whether the middleware calls next().  authHeader is
\* req.headers.authorization, <<>> when the request has none.
Authorized(authHeader) ==
    /\ authHeader # <<>>
    /\ StartsWith(authHeader, Bearer)
    /\ Substring(authHeader, 7) = SecretToken

\* app.use(authenticate), for a request to a route registered after it: the
\* middleware answers 401 or hands the request to its route
Authenticate(route, name, authHeader) ==
    /\ last' = [op |-> "authenticate", route |-> route, name |-> name, auth |-> authHeader,
                next |-> Authorized(authHeader),
                res |-> [status |-> IF Authorized(authHeader) THEN 0 ELSE 401]]
    /\ UNCHANGED serverState

\* next(): the request the middleware has just passed reaches its route
Routed(route, name) ==
    last.op = "authenticate" /\ last.next /\ last.route = route /\ last.name = name

\* GET /health
Health ==
    /\ last' = [op |-> "health", res |-> [status |-> 200]]
    /\ UNCHANGED serverState

\* GET /api/:session/diagnostics
Diagnostics(name) ==
    /\ last' = [op |-> "diagnostics", name |-> name,
                res |-> [status |-> 200, exists |-> disk[name].dir,
                         hasSocket |-> sockets[name] # 0, hasQRCode |-> qrCodes[name] # 0,
                         isConnected |-> Connected(name)]]
    /\ UNCHANGED serverState

\* GET /api/:session/qrcode-session?force=.  The poll for the QR code after
\* startSocket changes nothing; the events of the new handle are handled after
\* the answer, so a started socket is answered with the code qrCodes holds, if any.
QrcodeSession(name, forceNew) ==
    IF Connected(name) /\ ~forceNew
    THEN Reply([op |-> "qrcode-session", name |-> name, forceNew |-> forceNew,
                res |-> [status |-> 200, qrcode |-> 0, connected |-> TRUE]])
    ELSE IF disk[name].creds /\ ~forceNew
    THEN Reply([op |-> "qrcode-session", name |-> name, forceNew |-> forceNew,
                res |-> [status |-> 200, qrcode |-> 0, needsForce |-> TRUE]])
    ELSE IF forceNew \/ sockets[name] = 0
    THEN /\ \/ StartSocket(name, forceNew) /\ UNCHANGED sockets
            \/ forceNew /\ StartSocketOver(name)
         /\ last' = [op |-> "qrcode-session", name |-> name, forceNew |-> forceNew,
                     res |-> [status |-> 200, qrcode |-> qrCodes[name],
                              retry |-> qrCodes[name] = 0]]
         /\ UNCHANGED <<qrCodes, sessionChats, timers, renders, pushed>>
    ELSE Reply([op |-> "qrcode-session", name |-> name, forceNew |-> forceNew,
                res |-> [status |-> 200, qrcode |-> qrCodes[name],
                         retry |-> qrCodes[name] = 0]])

\* qrcode-session in the steps of its wait.  The handler up to the first test
\* of its loop, for a request that starts a socket: startSocket has resolved
\* and no poll has been made.  The request stays unanswered (status 0).
QrcodeAwaits(name, forceNew) ==
    /\ ~(Connected(name) /\ ~forceNew)
    /\ ~(disk[name].creds /\ ~forceNew)
    /\ forceNew \/ sockets[name] = 0
    /\ \/ StartSocket(name, forceNew) /\ UNCHANGED sockets
       \/ forceNew /\ StartSocketOver(name)
    /\ last' = [op |-> "qrcode-session", name |-> name, forceNew |-> forceNew,
                attempts |-> 0, res |-> [status |-> 0]]
    /\ UNCHANGED <<qrCodes, sessionChats, timers, renders, pushed>>

\* const maxAttempts = 40
MaxAttempts == 40

PollAlways(has, attempts) == ~has

\* while (!qrCodes.has(sessionName) && attempts < maxAttempts)
PollAgain(has, attempts) == ~has /\ attempts < MaxAttempts

\* The request the handler of qrcode-session is polling for
Polling == last.op = "qrcode-session" /\ last.res.status = 0

\* The test of the loop holds, the 500 ms timer fires, attempts++
QrcodePolls ==
    /\ Polling
    /\ PollAgain(qrCodes[last.name] # 0, last.attempts)
    /\ last' = [last EXCEPT !.attempts = @ + 1]
    /\ UNCHANGED serverState

\* The test of the loop fails: the answer, with qrCodes.get(sessionName)
QrcodeAnswers ==
    /\ Polling
    /\ ~PollAgain(qrCodes[last.name] # 0, last.attempts)
    /\ last' = [last EXCEPT !.res = [status |-> 200, qrcode |-> qrCodes[last.name],
                                     retry |-> qrCodes[last.name] = 0]]
    /\ UNCHANGED serverState

\* GET /api/:session/status-session
StatusSession(name) ==
    Reply([op |-> "status-session", name |-> name,
           res |-> [status |-> 200, connected |-> Connected(name),
                    state |-> IF Connected(name) THEN "CONNECTED"
                              ELSE IF sockets[name] # 0 \/ qrCodes[name] # 0 \/ disk[name].creds
                              THEN "connecting" ELSE "disconnected"]])

\* GET /api/:session/all-chats, with what sock.groupFetchAllParticipating() answers
AllChatsGroup(group) ==
    [id |-> group.id, name |-> OrStr(Str(group, "subject"), Unknown \o <<" ">> \o Group)]

AllChats(name, fetched) ==
    Reply([op |-> "all-chats", name |-> name,
           calls |-> IF Connected(name) THEN <<"groupFetchAllParticipating">> ELSE <<>>,
           res |-> IF ~Connected(name) THEN [status |-> 400]
                   ELSE IF fetched.kind = "throws" THEN [status |-> 500]
                   ELSE [status |-> 200,
                         groups |-> LET kept == SelectSeq(fetched.groups,
                                                   LAMBDA group : EndsWith(group.id, AtGUs))
                                    IN  Tuple([i \in 1..Len(kept) |-> AllChatsGroup(kept[i])])]])

\* group-info: the phone of a participant, <<>> for null
ParticipantPhone(participantId) ==
    IF Includes(participantId, AtSWhatsappNet)
    THEN SplitHead(SplitHead(participantId, ":"), "@")
    ELSE IF Includes(participantId, AtLid) THEN LidDigits(participantId)
    ELSE <<>>

\* group-info: getContactName(jid), <<>> for null
GetContactName(store, jid) ==
    IF store.has /\ MapHas(store.contacts, jid)
    THEN OrStr(NameOf(MapGet(store.contacts, jid)),
               Str(MapGet(store.contacts, jid), "verifiedName"))
    ELSE <<>>

\* group-info: the pushName of the newest message that has one
LastPushName(messages) ==
    IF \E i \in 1..Len(messages) : Str(messages[i], "pushName") # <<>>
    THEN Str(messages[CHOOSE i \in 1..Len(messages) :
                         /\ Str(messages[i], "pushName") # <<>>
                         /\ \A j \in (i + 1)..Len(messages) : Str(messages[j], "pushName") = <<>>],
             "pushName")
    ELSE <<>>

\* group-info: the messages the fallback reads, messageStore.get(participantId)
\* || messageStore.get(`${phone}@s.whatsapp.net`) || []
ParticipantMessages(ledger, participantId, phone) ==
    IF ~ledger.has THEN <<>>
    ELSE IF MapHas(ledger.map, participantId) THEN MapGet(ledger.map, participantId)
    ELSE ArrayOf(ledger.map, phone \o AtSWhatsappNet)

\* group-info: the name of a participant, by the contact of its id, the contact
\* of its phone, the push names of its messages, then its phone
ParticipantNamed(phone, named, pushName) ==
    IF named # <<>> THEN named
    ELSE IF pushName # <<>> THEN pushName
    ELSE IF phone # <<>> THEN <<"+">> \o phone ELSE <<>>

ParticipantName(store, ledger, participantId, phone) ==
    ParticipantNamed(phone,
                     IF GetContactName(store, participantId) = <<>>
                        /\ Includes(participantId, AtLid) /\ phone # <<>>
                     THEN GetContactName(store, phone \o AtSWhatsappNet)
                     ELSE GetContactName(store, participantId),
                     LastPushName(ParticipantMessages(ledger, participantId, phone)))

Participant(store, ledger, participant) ==
    [id |-> participant.id, phone |-> ParticipantPhone(participant.id),
     name |-> ParticipantName(store, ledger, participant.id,
                              ParticipantPhone(participant.id)),
     admin |-> Str(participant, "admin") \in {<<"a","d","m","i","n">>,
                                              <<"s","u","p","e","r","a","d","m","i","n">>}]

\* The two timers of group-info, in milliseconds: the one that answers 504,
\* set before the call, and the one that rejects the race with the call
ResponseTimeoutMs == 60000

RaceTimeoutMs == 30000

\* group-info when groupMetadata never settles: the timer that expires first
\* runs first.  The rejection of the race lands in the catch, which clears the
\* other timer and answers 500 with the message of the error; the other timer
\* answers 504, after which the catch finds the headers sent.
GroupInfoTimesOut ==
    IF RaceTimeoutMs < ResponseTimeoutMs THEN [status |-> 500] ELSE [status |-> 504]

\* GET /api/:session/group-info/:groupId, with what sock.groupMetadata answers
GroupInfo(name, groupId, fetched) ==
    Reply([op |-> "group-info", name |-> name, groupId |-> groupId,
           calls |-> IF Connected(name) THEN <<"groupMetadata">> ELSE <<>>,
           upstream |-> fetched.kind,
           res |-> IF ~Connected(name) THEN [status |-> 400]
                   ELSE IF fetched.kind = "throws" THEN [status |-> 500]
                   ELSE IF fetched.kind = "hangs" THEN GroupInfoTimesOut
                   ELSE [status |-> 200, subject |-> Str(fetched.metadata, "subject"),
                         participants |->
                            Tuple([i \in 1..Len(fetched.metadata.participants) |->
                                      Participant(sessionStores[name], sessionMessages[name],
                                                  fetched.metadata.participants[i])])]])

\* phone.replace(/[^\d]/g, '')
CleanPhone(phone) == SelectSeq(phone, LAMBDA c : c \in DigitChars)

MinPhoneDigits == 10

MaxPhoneDigits == 15

\* send-message: sock.sendMessage(jid, { text: message }) and the answer
SendTo(jid, calls, sent) ==
    [calls |-> Append(calls, "sendMessage"),
     res |-> IF sent = "key" THEN [status |-> 200, success |-> TRUE, jid |-> jid]
             ELSE [status |-> 500]]

\* send-message: the try block.  A phone that is not a string has no replace
\* method: the TypeError is caught and answered 500.
SendBody(body, onWhatsApp, sent) ==
    IF OrStr(body.chatJid, body.chatId) # <<>> /\ Includes(OrStr(body.chatJid, body.chatId), <<"@">>)
    THEN SendTo(OrStr(body.chatJid, body.chatId), <<>>, sent)
    ELSE IF body.isGroup /\ body.chatId # <<>> THEN SendTo(body.chatId, <<>>, sent)
    ELSE IF Truthy(body.phone)
    THEN IF body.phone.type # "string" THEN [calls |-> <<>>, res |-> [status |-> 500]]
         ELSE IF Len(CleanPhone(body.phone.s)) < MinPhoneDigits
                 \/ Len(CleanPhone(body.phone.s)) > MaxPhoneDigits
         THEN [calls |-> <<>>, res |-> [status |-> 400]]
         ELSE IF onWhatsApp = "absent"
         THEN [calls |-> <<"onWhatsApp">>, res |-> [status |-> 400]]
         ELSE SendTo(CleanPhone(body.phone.s) \o AtSWhatsappNet, <<"onWhatsApp">>, sent)
    ELSE [calls |-> <<>>, res |-> [status |-> 400]]

\* POST /api/:session/send-message, with what sock.onWhatsApp and
\* sock.sendMessage answer should the handler call them
SendMessage(name, body, onWhatsApp, sent) ==
    Reply([op |-> "send-message", name |-> name, body |-> body]
          @@ (IF ~Connected(name) \/ body.message = <<>>
              THEN [calls |-> <<>>, res |-> [status |-> 400]]
              ELSE SendBody(body, onWhatsApp, sent)))

\* A close-session that drops the session's message Map and its store with the
\* session directory
CloseSessionPurging(name, threw) ==
    /\ socks' = IF sockets[name] # 0 /\ ~threw
                THEN [socks EXCEPT ![sockets[name]].state = "closed",
                                   ![sockets[name]].loggedOut = TRUE]
                ELSE socks
    /\ sockets' = IF sockets[name] # 0 /\ ~threw THEN [sockets EXCEPT ![name] = 0]
                  ELSE sockets
    /\ sessionChats' = IF sockets[name] # 0 /\ ~threw
                       THEN [sessionChats EXCEPT ![name] = NoMap] ELSE sessionChats
    /\ disk' = [disk EXCEPT ![name] = [dir |-> FALSE, creds |-> FALSE]]
    /\ qrCodes' = [qrCodes EXCEPT ![name] = 0]
    /\ sessionMessages' = [sessionMessages EXCEPT ![name] = NoMap]
    /\ sessionStores' = [sessionStores EXCEPT ![name] = NoStore]
    /\ last' = [op |-> "close-session", name |-> name, threw |-> threw,
                calls |-> IF sockets[name] # 0 THEN <<"logout">> ELSE <<>>,
                res |-> [status |-> 200]]
    /\ UNCHANGED <<timers, renders, pushed>>

\* DELETE /api/:session/close-session, with whether sock.logout() throws.  A
\* logout that succeeds ends the handle with reason logged-out, and the 'close'
\* event of the handle is handled before logout() resolves.
CloseSession(name, threw) ==
    /\ socks' = IF sockets[name] # 0 /\ ~threw
                THEN [socks EXCEPT ![sockets[name]].state = "closed",
                                   ![sockets[name]].loggedOut = TRUE]
                ELSE socks
    /\ sockets' = IF sockets[name] # 0 /\ ~threw THEN [sockets EXCEPT ![name] = 0]
                  ELSE sockets
    /\ sessionChats' = IF sockets[name] # 0 /\ ~threw
                       THEN [sessionChats EXCEPT ![name] = NoMap] ELSE sessionChats
    /\ disk' = [disk EXCEPT ![name] = [dir |-> FALSE, creds |-> FALSE]]
    /\ qrCodes' = [qrCodes EXCEPT ![name] = 0]
    /\ last' = [op |-> "close-session", name |-> name, threw |-> threw,
                calls |-> IF sockets[name] # 0 THEN <<"logout">> ELSE <<>>,
                res |-> [status |-> 200]]
    /\ UNCHANGED <<sessionMessages, sessionStores, timers, renders, pushed>>

---------------------------------------------------------------------------
\* The events and requests the specifications below deliver

DigitChar(d) ==
    CASE d = 0 -> "0" [] d = 1 -> "1" [] d = 2 -> "2" [] d = 3 -> "3" [] d = 4 -> "4"
      [] d = 5 -> "5" [] d = 6 -> "6" [] d = 7 -> "7" [] d = 8 -> "8" [] d = 9 -> "9"

RECURSIVE NatToStr(_)
NatToStr(n) == IF n < 10 THEN <<DigitChar(n)>> ELSE NatToStr(n \div 10) \o <<DigitChar(n % 10)>>

\* Chat ids: two phone chats and a group
Jid1 == <<"7","1">> \o AtSWhatsappNet
Jid2 == <<"7","2">> \o AtSWhatsappNet
JidG == <<"7","3">> \o AtGUs

\* Date.now() of the requests, in milliseconds, and the timestamps (seconds) of
\* the messages: message n is n * TsStep seconds old, so that the newest are
\* within the last 24 hours and the oldest are not, and even ids are from self
NowMs == 200000000
TsStep == 1000
TsOf(n) == NowMs \div 1000 - n * TsStep

TextOf(v) == <<"t">> \o NatToStr(v)

\* Message n of a chat as WhatsApp delivers it; variant 2 has another content
\* and its timestamp as a string
Msg(jid, n, v) ==
    [key |-> [remoteJid |-> jid, id |-> NatToStr(n), fromMe |-> n % 2 = 0],
     messageTimestamp |-> IF v = 1 THEN JsNum(TsOf(n)) ELSE JsStr(NatToStr(TsOf(n) + 1)),
     message |-> [conversation |-> TextOf(v)]]

\* A message without content, and a message without an id
Bare(jid, n) ==
    [key |-> [remoteJid |-> jid, id |-> NatToStr(n), fromMe |-> FALSE],
     messageTimestamp |-> JsNum(TsOf(n))]

Anonymous(jid) == [key |-> [remoteJid |-> jid, fromMe |-> FALSE]]

\* Messages lo..hi of a chat, in id order
Range(jid, lo, hi, v) == Tuple([i \in 1..(hi - lo + 1) |-> Msg(jid, lo + i - 1, v)])

\* { message: WebMessageInfo } wrappers, the nested shape of embedded messages
Wrapped(messages) == Tuple([i \in 1..Len(messages) |-> [message |-> messages[i]]])

\* The most pushes a session's feeds and write-backs make in one behaviour
MaxPushes == 102

---------------------------------------------------------------------------
\* SpecLedger: one connected session, its feeds delivering a batch that fills
\* the ledger, one message more and duplicates of them, and GET messages

\* Session a after start-session and the 'open' event of its handle
InitLedger ==
    /\ sockets = [n \in Names |-> IF n = NameA THEN 1 ELSE 0]
    /\ socks = <<[NewSock(NameA) EXCEPT !.user = TRUE]>>
    /\ qrCodes = [n \in Names |-> 0]
    /\ sessionChats = [n \in Names |-> NoMap]
    /\ sessionMessages = [n \in Names |-> IF n = NameA THEN [has |-> TRUE, map |-> <<>>] ELSE NoMap]
    /\ sessionStores = [n \in Names |->
                          IF n = NameA THEN [has |-> TRUE, contacts |-> <<>>, messages |-> <<>>]
                          ELSE NoStore]
    /\ disk = [n \in Names |-> [dir |-> n = NameA, creds |-> n = NameA]]
    /\ timers = [n \in Names |-> 0]
    /\ renders = <<>>
    /\ last = NoRequest
    /\ pushed = [n \in Names |-> <<>>]

\* As many messages as the ledger keeps, followed by a duplicate of the first
LedgerUpserts == {Range(Jid1, 1, LedgerCap, 1) \o <<Msg(Jid1, 1, 2)>>}

\* A history sync that carries message 1 inside its chat and one message more
\* beside it
LedgerHistories ==
    {[chats |-> <<[id |-> Jid1, messages |-> Wrapped(<<Msg(Jid1, 1, 2)>>)]>>,
      messages |-> <<Msg(Jid1, LedgerCap + 1, 2), Msg(Jid1, LedgerCap + 1, 1)>>]}

\* A chat that embeds a message and a duplicate of it
LedgerChats ==
    {<<[id |-> Jid2, messages |-> Wrapped(<<Msg(Jid2, 1, 1), Msg(Jid2, 1, 2)>>)]>>}

NextLedger ==
    \/ \E h \in SockIds, messages \in LedgerUpserts :
          MessagesUpsert(h, messages, "notify") /\ Len(pushed'[NameA]) <= MaxPushes
    \/ \E h \in SockIds, history \in LedgerHistories :
          HistorySet(h, history) /\ Len(pushed'[NameA]) <= MaxPushes
    \/ \E h \in SockIds, chats \in LedgerChats : ChatsUpdate(h, chats)
    \/ \E param \in {Jid1, Jid2} :
          /\ GetMessages(NameA, param, <<>>, [kind |-> "returns", messages |-> <<>>], NowMs)
          /\ Len(pushed'[NameA]) <= MaxPushes

SpecLedger == InitLedger /\ [][NextLedger]_vars

---------------------------------------------------------------------------
\* SpecRetrieve: GET messages on a connected session, for each of a few
\* contents of its ledger and of its chat directory

\* A ledger as the history feed leaves it, and the pushes that made it
Filled(jid, messages) == IF messages = <<>> THEN <<>> ELSE <<[k |-> jid, v |-> messages]>>

PushesOf(jid, messages) ==
    Tuple([i \in 1..Len(messages) |-> [jid |-> jid, id |-> KeyId(messages[i])]])

\* The ledgers of chat 1: none, three messages, more than a response carries
RetrieveLedgers == {<<>>, Range(Jid1, 1, 3, 1), Range(Jid1, 1, ResponseCeiling + 5, 1)}

\* The directory: empty, chat 1 with unread messages, or chat 2 embedding three
\* wrapped messages, a message and a duplicate of it, or two messages without
\* wrappers, or the group embedding more messages than the ledger keeps (that
\* one beside an empty ledger only)
OverCapChats == <<[id |-> JidG, messages |-> Wrapped(Range(JidG, 1, LedgerCap + 1, 1))]>>

RetrieveChats ==
    {<<>>,
     <<[id |-> Jid1, unreadCount |-> 30]>>,
     <<[id |-> Jid2, messages |-> Wrapped(Range(Jid2, 1, 3, 1))]>>,
     <<[id |-> Jid2, messages |-> Wrapped(<<Msg(Jid2, 1, 1), Msg(Jid2, 1, 2)>>)]>>,
     <<[id |-> Jid2, messages |-> Range(Jid2, 1, 2, 1)]>>,
     OverCapChats}

\* The secondary store: empty, or as its messages.upsert listener leaves it
\* after two messages of chat 1 and two of chat 2 that no ledger holds
RetrieveStores ==
    {<<>>, StoreUpsertLoop(<<>>, Range(Jid1, 8, 9, 1) \o Range(Jid2, 6, 7, 1))}

Limits == {<<>>, <<"0">>, <<"-", "1">>, <<"1", "0", "0", "0">>, <<"7">>}

LiveOutcomes ==
    {[kind |-> "throws"], [kind |-> "returns", messages |-> <<>>],
     [kind |-> "returns", messages |-> Range(Jid2, 1, ResponseCeiling + 5, 1)]}

InitRetrieve ==
    /\ sockets = [n \in Names |-> IF n = NameA THEN 1 ELSE 0]
    /\ socks = <<[NewSock(NameA) EXCEPT !.user = TRUE]>>
    /\ qrCodes = [n \in Names |-> 0]
    /\ \E chats \in RetrieveChats, messages \in RetrieveLedgers, stored \in RetrieveStores :
          /\ chats = OverCapChats => messages = <<>>
          /\ sessionStores = [n \in Names |->
                                IF n = NameA
                                THEN [has |-> TRUE, contacts |-> <<>>, messages |-> stored]
                                ELSE NoStore]
          /\ sessionChats = [n \in Names |->
                               IF n = NameA /\ chats # <<>>
                               THEN [has |-> TRUE, map |-> ChatsUpdateLoop(<<>>, chats)]
                               ELSE NoMap]
          /\ sessionMessages = [n \in Names |->
                                  IF n = NameA
                                  THEN [has |-> TRUE, map |-> Filled(Jid1, messages)]
                                  ELSE NoMap]
          /\ pushed = [n \in Names |-> IF n = NameA THEN PushesOf(Jid1, messages) ELSE <<>>]
    /\ disk = [n \in Names |-> [dir |-> n = NameA, creds |-> n = NameA]]
    /\ timers = [n \in Names |-> 0]
    /\ renders = <<>>
    /\ last = NoRequest

NextRetrieve ==
    \/ \E param \in {Jid1, Jid2}, limit \in Limits, live \in LiveOutcomes :
          GetMessages(NameA, param, limit, live, NowMs)
    \/ GetMessages(NameA, JidG, <<>>, [kind |-> "throws"], NowMs)

SpecRetrieve == InitRetrieve /\ [][NextRetrieve]_vars

---------------------------------------------------------------------------
\* SpecFetch: GET messages on a connected session in the steps of its live
\* fetch.  The library settles the call or does not; once it has, the event
\* loop runs the rest of the handler.

\* What loadMessages settles with: a rejection, no message, one message
FetchOutcomes ==
    {[kind |-> "throws"], [kind |-> "returns", messages |-> <<>>],
     [kind |-> "returns", messages |-> <<Msg(Jid2, 1, 1)>>]}

NextFetch ==
    \/ \E param \in {Jid1, Jid2}, limit \in Limits :
          GetMessagesAwaits(NameA, param, limit, NowMs)
    \/ \E live \in FetchOutcomes : LoadMessagesSettles(live)
    \/ GetMessagesResumes
    \/ \E param \in {Jid1, Jid2} : GetMessages(NameA, param, <<>>, [kind |-> "throws"], NowMs)

\* The states of InitRetrieve with at most three messages in the ledger
InitFetch == InitRetrieve /\ Len(ArrayOf(sessionMessages[NameA].map, Jid1)) <= 3

SpecFetch == InitFetch /\ [][NextFetch]_vars /\ WF_vars(GetMessagesResumes)

---------------------------------------------------------------------------
\* SpecOrder: one connected session whose messages.upsert feed delivers up to
\* MaxOrderPushes new messages one by one, with timestamps of each kind, and
\* GET messages, which sorts the ledger of the chat

\* A timestamp as an integer, the one before it as an integer and as a decimal
\* string, and a string that is no number
OrderTimestamps ==
    {JsNum(TsOf(1)), JsNum(TsOf(2)), JsStr(NatToStr(TsOf(2))), JsStr(<<"x">>)}

\* Message n of chat 1 with each of these timestamps, and with none
OrderMessages(n) ==
    {[key |-> [remoteJid |-> Jid1, id |-> NatToStr(n), fromMe |-> FALSE],
      messageTimestamp |-> ts, message |-> [conversation |-> TextOf(1)]] :
        ts \in OrderTimestamps}
    \cup {[key |-> [remoteJid |-> Jid1, id |-> NatToStr(n), fromMe |-> FALSE],
            message |-> [conversation |-> TextOf(1)]]}

MaxOrderPushes == 3

NextOrder ==
    \/ \E h \in SockIds : \E message \in OrderMessages(Len(pushed[NameA]) + 1) :
          Len(pushed[NameA]) < MaxOrderPushes /\ MessagesUpsert(h, <<message>>, "notify")
    \/ GetMessages(NameA, Jid1, <<>>, [kind |-> "throws"], NowMs)

SpecOrder == InitLedger /\ [][NextOrder]_vars

---------------------------------------------------------------------------
\* SpecChats: GET chats on a connected session, for each directory of up to
\* MaxChats raw chats and each of a few contact stores

Lid1 == <<"8", "1">> \o AtLid
Lid2 == <<"8", "2">> \o AtLid
LongDigits == <<"7", "1", "0", "0", "0", "0", "0", "0", "0", "0">>
LidLong == LongDigits \o AtLid
JidLong == LongDigits \o AtSWhatsappNet

Al == <<"a", "l">>
Bo == <<"b", "o">>
Cy == <<"c", "y">>

\* Raw chats: the phone chat 71 under three contents (one of them pinned, the
\* property holding the time of the pinning), two anonymous chats, an
\* anonymous chat whose id is a phone number and that phone's chat, a group
\* and the status broadcast
ChatPool ==
    {[id |-> Jid1, name |-> Unknown, unreadCount |-> 2, conversationTimestamp |-> JsNum(100)],
     [id |-> Jid1, unread |-> 1, pinned |-> JsNum(7)],
     [id |-> Jid1, name |-> Bo, unreadCount |-> 4, conversationTimestamp |-> JsNum(300)],
     [id |-> Lid1, unreadCount |-> 3, conversationTimestamp |-> JsNum(200)],
     [id |-> Lid1, name |-> Unknown],
     [id |-> Lid2, name |-> Cy, unreadCount |-> 5],
     [id |-> LidLong, unreadCount |-> 1],
     [id |-> JidLong, unreadCount |-> 6, conversationTimestamp |-> JsStr(<<"5", "0">>)],
     [id |-> JidG, subject |-> <<"g", "r">>],
     [id |-> StatusBroadcast, unreadCount |-> 9]}

MaxChats == 3

Directories ==
    {chats \in UNION {[1..n -> ChatPool] : n \in 0..MaxChats} :
        \A i, j \in 1..Len(chats) : chats[i].id = chats[j].id => i = j}

\* Contact stores: what contacts.upsert has delivered
ContactLists ==
    {<<>>,
     <<[id |-> Lid1, phoneNumber |-> <<"7", "1">>, name |-> Al]>>,
     <<[id |-> Lid1, phoneNumber |-> <<"7", "1">>, name |-> Unknown],
       [id |-> Lid2, phoneNumber |-> <<"7", "1">>, name |-> Al]>>,
     <<[id |-> Lid1, phoneNumber |-> <<"7", "1">>], [id |-> Lid2, name |-> Unknown]>>}

GroupFetches ==
    {[kind |-> "throws"],
     [kind |-> "returns",
      groups |-> <<[id |-> JidG, subject |-> <<"g", "r">>], [id |-> Jid1], [id |-> JidG]>>]}

InitChats ==
    /\ sockets = [n \in Names |-> IF n = NameA THEN 1 ELSE 0]
    /\ socks = <<[NewSock(NameA) EXCEPT !.user = TRUE]>>
    /\ qrCodes = [n \in Names |-> 0]
    /\ \E chats \in Directories :
          sessionChats = [n \in Names |->
                            IF n = NameA /\ chats # <<>>
                            THEN [has |-> TRUE, map |-> ChatsUpdateLoop(<<>>, chats)]
                            ELSE NoMap]
    /\ sessionMessages = [n \in Names |-> IF n = NameA THEN [has |-> TRUE, map |-> <<>>] ELSE NoMap]
    /\ \E list \in ContactLists :
          sessionStores = [n \in Names |->
                             IF n = NameA
                             THEN [has |-> TRUE, contacts |-> StoreContactsUpsert(<<>>, list),
                                   messages |-> <<>>]
                             ELSE NoStore]
    /\ disk = [n \in Names |-> [dir |-> n = NameA, creds |-> n = NameA]]
    /\ timers = [n \in Names |-> 0]
    /\ renders = <<>>
    /\ last = NoRequest
    /\ pushed = [n \in Names |-> <<>>]

NextChats == \E name \in Names, fetched \in GroupFetches : GetChats(name, fetched)

SpecChats == InitChats /\ [][NextChats]_vars

---------------------------------------------------------------------------
\* SpecResolve: GET chats on a connected session, for each directory of up to
\* MaxResolved raw chats with ids of every format and each of a few contact
\* stores

\* n digits
Digits(n) == Tuple([i \in 1..n |-> "1"])

\* Anonymous ids of 9, 10, 15 and 16 digits and one that is no number; an id
\* of the broadcast server, and an id of a format the first pass does not know
LidOf(n) == Digits(n) \o AtLid
LidAlpha == <<"a", "b">> \o AtLid
List1 == <<"7", "1", "@">> \o Broadcast
CUs1 == <<"7", "1", "@", "c", ".", "u", "s">>

ResolveIds ==
    {JidG, Jid1, Lid1, LidAlpha, StatusBroadcast, ServerCUs, List1, CUs1}
    \cup {LidOf(n) : n \in {MinLidDigits - 1, MinLidDigits, MaxLidDigits, MaxLidDigits + 1}}

MaxResolved == 2

ResolveDirectories ==
    {chats \in UNION {[1..n -> {[id |-> id, unreadCount |-> 1] : id \in ResolveIds}] :
                          n \in 0..MaxResolved} :
        \A i, j \in 1..Len(chats) : chats[i].id = chats[j].id => i = j}

\* Contact stores: none, a phone number for the short anonymous id, a name
\* without phone number for it, a phone number for the id of 10 digits
ResolveContacts ==
    {<<>>,
     <<[id |-> Lid1, phoneNumber |-> <<"7", "1">>, name |-> Al]>>,
     <<[id |-> Lid1, name |-> Al]>>,
     <<[id |-> LidOf(MinLidDigits), phoneNumber |-> <<"7", "2">>]>>}

InitResolve ==
    /\ sockets = [n \in Names |-> IF n = NameA THEN 1 ELSE 0]
    /\ socks = <<[NewSock(NameA) EXCEPT !.user = TRUE]>>
    /\ qrCodes = [n \in Names |-> 0]
    /\ \E chats \in ResolveDirectories :
          sessionChats = [n \in Names |->
                            IF n = NameA /\ chats # <<>>
                            THEN [has |-> TRUE, map |-> ChatsUpdateLoop(<<>>, chats)]
                            ELSE NoMap]
    /\ sessionMessages = [n \in Names |-> IF n = NameA THEN [has |-> TRUE, map |-> <<>>] ELSE NoMap]
    /\ \E list \in ResolveContacts :
          sessionStores = [n \in Names |->
                             IF n = NameA
                             THEN [has |-> TRUE, contacts |-> StoreContactsUpsert(<<>>, list),
                                   messages |-> <<>>]
                             ELSE NoStore]
    /\ disk = [n \in Names |-> [dir |-> n = NameA, creds |-> n = NameA]]
    /\ timers = [n \in Names |-> 0]
    /\ renders = <<>>
    /\ last = NoRequest
    /\ pushed = [n \in Names |-> <<>>]

SpecResolve == InitResolve /\ [][NextChats]_vars

---------------------------------------------------------------------------
\* SpecContactFeed: one connected session whose handle delivers contacts.upsert
\* and contacts.update events for two contacts, one record at a time

\* A contact record with each choice of a name and of a phone number: the
\* property missing, empty, or holding a value
ContactNames == {<<>>, Al, Bo}
ContactPhones == {<<>>, <<"7", "1">>}

ContactRecords ==
    {[id |-> id] : id \in {Lid1, Lid2}}
    \cup {[id |-> id, name |-> n] : id \in {Lid1, Lid2}, n \in ContactNames}
    \cup {[id |-> id, phoneNumber |-> p] : id \in {Lid1, Lid2}, p \in ContactPhones}
    \cup {[id |-> id, name |-> n, phoneNumber |-> p] :
              id \in {Lid1, Lid2}, n \in ContactNames, p \in ContactPhones}

NextContactFeed ==
    \/ \E h \in SockIds, contact \in ContactRecords : ContactsUpsert(h, <<contact>>)
    \/ \E h \in SockIds, update \in ContactRecords : ContactsUpdate(h, <<update>>)

SpecContactFeed == InitLedger /\ [][NextContactFeed]_vars

---------------------------------------------------------------------------
\* Spec: the lifecycle of the sessions, from the start of the process.  The
\* handles of session a receive the feeds, on small inputs; both sessions are
\* started, connected, closed and asked for their messages and chats.

SpecUpserts == {<<Msg(Jid1, 1, 1)>>}

SpecHistories == {[chats |-> <<[id |-> Jid1, unreadCount |-> 2]>>,
                   messages |-> <<Msg(Jid1, 1, 2)>>]}

SpecChatUpdates == {<<[id |-> Jid1, unreadCount |-> 2]>>}

\* The handles the feeds are delivered to
Fed == {h \in SockIds : socks[h].name = NameA}

SpecContacts == {<<[id |-> Lid1, phoneNumber |-> <<"7", "1">>]>>}

\* The handles made in Spec and in SpecHttp
MaxSpecSocks == 2

Next ==
    \/ \E name \in Names, forceNew \in BOOLEAN :
          /\ Len(socks) < MaxSpecSocks \/ (Connected(name) /\ ~forceNew)
          /\ StartSession(name, forceNew)
    \/ \E name \in Names : Len(socks) < MaxSpecSocks /\ TimerFire(name)
    \/ \E h \in SockIds : ConnConnecting(h)
    \/ \E h \in SockIds : ConnQr(h)
    \/ \E i \in 1..Len(renders), ok \in BOOLEAN : RenderDone(i, ok)
    \/ \E h \in SockIds : ConnOpen(h)
    \/ \E h \in SockIds, loggedOut \in BOOLEAN : ConnClose(h, loggedOut)
    \/ \E h \in Fed, messages \in SpecUpserts : MessagesUpsert(h, messages, "notify")
    \/ \E h \in Fed, history \in SpecHistories : HistorySet(h, history)
    \/ \E h \in Fed, chats \in SpecChatUpdates : ChatsUpdate(h, chats)
    \/ \E h \in Fed, list \in SpecContacts : ContactsUpsert(h, list)
    \/ \E name \in Names : GetMessages(name, Jid1, <<>>, [kind |-> "throws"], NowMs)
    \/ \E name \in Names : GetChats(name, [kind |-> "throws"])

Spec == Init /\ [][Next]_vars

---------------------------------------------------------------------------
\* SpecPurge: session a, connected, whose first handle receives messages and
\* contacts; the session is closed by request, started again with and without
\* forceNew, connected through the new handle and asked for its messages.  The
\* closes the handles report themselves are transient ones, so that a handle
\* is logged out by close-session only.

PurgeUpserts == {<<Msg(Jid1, 1, 1)>>, <<Msg(Jid1, 2, 2)>>}

\* The handle the session is connected through at the start
FirstHandle == {h \in SockIds : h = 1}

\* The handles made in SpecPurge
MaxPurgeSocks == 3

NextPurge ==
    \/ \E h \in FirstHandle, messages \in PurgeUpserts : MessagesUpsert(h, messages, "notify")
    \/ \E h \in FirstHandle, list \in SpecContacts : ContactsUpsert(h, list)
    \/ \E threw \in BOOLEAN : CloseSession(NameA, threw)
    \/ \E forceNew \in BOOLEAN :
          /\ Len(socks) < MaxPurgeSocks \/ (Connected(NameA) /\ ~forceNew)
          /\ StartSession(NameA, forceNew)
    \/ \E h \in SockIds : ConnOpen(h)
    \/ \E h \in SockIds : ConnClose(h, FALSE)
    \/ Len(socks) < MaxPurgeSocks /\ TimerFire(NameA)
    \/ GetMessages(NameA, Jid1, <<>>, [kind |-> "throws"], NowMs)

SpecPurge == InitLedger /\ [][NextPurge]_vars

---------------------------------------------------------------------------
\* SpecHttp: the requests of every route, through the authentication
\* middleware, to a session with a valid name and to one whose name has a dot,
\* while the handles connect, show their QR code and are logged out.

NameDot == <<"a", ".">>

HttpNames == {NameA, NameDot}

\* req.headers.authorization: none, the token under another scheme, a wrong
\* token, the token with a character more, the configured token
Basic == <<"B","a","s","i","c"," ">>

Headers ==
    {<<>>, Basic \o SecretToken, Bearer \o <<"t","x">>,
     Bearer \o SecretToken \o <<"x">>, Bearer \o SecretToken}

Routes ==
    {"start-session", "qrcode-session", "status-session", "all-chats", "GET chats",
     "group-info", "GET messages", "send-message", "close-session"}

\* A phone of n digits, and the phones of the send-message requests: absent,
\* too short, of the least and of the greatest length with punctuation, too
\* long, without digits, and a number
PhoneOf(n) == [i \in 1..n |-> DigitChar(i % 10)]

Phones ==
    {JsUndef, JsStr(PhoneOf(MinPhoneDigits - 1)),
     JsStr(<<"+">> \o PhoneOf(MinPhoneDigits)),
     JsStr(PhoneOf(MaxPhoneDigits - 1) \o <<"-", "1">>),
     JsStr(PhoneOf(MaxPhoneDigits + 1)), JsStr(<<"a", "b">>), JsNum(12345)}

SendBodies ==
    {[message |-> <<"h">>, chatJid |-> <<>>, chatId |-> <<>>, isGroup |-> FALSE,
      phone |-> phone] : phone \in Phones}
    \cup {[message |-> <<>>, chatJid |-> Jid1, chatId |-> <<>>, isGroup |-> FALSE,
           phone |-> JsUndef],
          [message |-> <<"h">>, chatJid |-> Jid1, chatId |-> <<>>, isGroup |-> FALSE,
           phone |-> JsUndef],
          [message |-> <<"h">>, chatJid |-> <<>>, chatId |-> <<"7", "3">>, isGroup |-> TRUE,
           phone |-> JsUndef],
          [message |-> <<"h">>, chatJid |-> <<>>, chatId |-> <<"7", "3">>, isGroup |-> FALSE,
           phone |-> JsUndef]}

\* What sock.groupMetadata answers
GroupMetadatas ==
    {[kind |-> "throws"], [kind |-> "hangs"],
     [kind |-> "returns",
      metadata |-> [subject |-> <<"g", "r">>,
                    participants |-> <<[id |-> Jid1, admin |-> <<"a","d","m","i","n">>],
                                       [id |-> Lid1]>>]]}

\* req.params.jid of the GET messages requests: a chat id, and a lone percent sign
Params == {Jid1, <<"%">>}

\* Bound of SpecHttp: the handles made before the last session-creating request
MaxHttpSocks == 1

InitHttp ==
    /\ sockets = [n \in HttpNames |-> 0]
    /\ socks = <<>>
    /\ qrCodes = [n \in HttpNames |-> 0]
    /\ sessionChats = [n \in HttpNames |-> NoMap]
    /\ sessionMessages = [n \in HttpNames |-> NoMap]
    /\ sessionStores = [n \in HttpNames |-> NoStore]
    /\ disk = [n \in HttpNames |-> [dir |-> FALSE, creds |-> FALSE]]
    /\ timers = [n \in HttpNames |-> 0]
    /\ renders = <<>>
    /\ last = NoRequest
    /\ pushed = [n \in HttpNames |-> <<>>]

NextHttp ==
    \/ \E route \in Routes, name \in HttpNames, authHeader \in Headers :
          Authenticate(route, name, authHeader)
    \/ Health
    \/ \E name \in HttpNames : Diagnostics(name)
    \/ \E name \in HttpNames, forceNew \in BOOLEAN :
          Routed("start-session", name) /\ Len(socks) < MaxHttpSocks
          /\ StartSession(name, forceNew)
    \/ \E name \in HttpNames, forceNew \in BOOLEAN :
          Routed("qrcode-session", name) /\ Len(socks) < MaxHttpSocks
          /\ QrcodeSession(name, forceNew)
    \/ \E name \in HttpNames : Routed("status-session", name) /\ StatusSession(name)
    \/ \E name \in HttpNames, fetched \in GroupFetches :
          Routed("all-chats", name) /\ AllChats(name, fetched)
    \/ \E name \in HttpNames, fetched \in GroupFetches :
          Routed("GET chats", name) /\ GetChats(name, fetched)
    \/ \E name \in HttpNames, fetched \in GroupMetadatas :
          Routed("group-info", name) /\ GroupInfo(name, JidG, fetched)
    \/ \E name \in HttpNames, param \in Params :
          Routed("GET messages", name)
          /\ GetMessages(name, param, <<>>, [kind |-> "throws"], NowMs)
    \/ \E name \in HttpNames, body \in SendBodies,
          onWhatsApp \in {"exists", "absent", "throws"}, sent \in {"key", "invalid", "throws"} :
          Routed("send-message", name) /\ SendMessage(name, body, onWhatsApp, sent)
    \/ \E name \in HttpNames, threw \in BOOLEAN :
          Routed("close-session", name) /\ CloseSession(name, threw)
    \/ \E h \in SockIds : ConnConnecting(h)
    \/ \E h \in SockIds : ConnQr(h)
    \/ \E i \in 1..Len(renders), ok \in BOOLEAN : RenderDone(i, ok)
    \/ \E h \in SockIds : ConnOpen(h)
    \/ \E h \in SockIds, loggedOut \in BOOLEAN : ConnClose(h, loggedOut)
    \/ \E name \in HttpNames : Len(socks) < MaxSpecSocks /\ TimerFire(name)

SpecHttp == InitHttp /\ [][NextHttp]_vars

---------------------------------------------------------------------------
\* SpecPoll: qrcode-session in the steps of its wait, one request at a time,
\* with the events of the handles between its polls.  The timer of a poll
\* fires, and the handler goes on when its loop ends.

NextPoll ==
    \/ \E name \in Names, forceNew \in BOOLEAN :
          ~Polling /\ Len(socks) < MaxSpecSocks /\ QrcodeAwaits(name, forceNew)
    \/ QrcodePolls
    \/ QrcodeAnswers
    \/ \E h \in SockIds : ConnQrStep(h) /\ UNCHANGED last
    \/ \E i \in 1..Len(renders), ok \in BOOLEAN : RenderDoneStep(i, ok) /\ UNCHANGED last
    \/ \E h \in SockIds : ConnCloseStep(h, TRUE) /\ UNCHANGED last

SpecPoll == Init /\ [][NextPoll]_vars /\ WF_vars(QrcodePolls) /\ WF_vars(QrcodeAnswers)

---------------------------------------------------------------------------
\* SpecReconnect: the lifecycle of the handles with the reconnect timers, under
\* the fairness of the timers.  Every handle the model may still make is
\* reserved before a step that will need one: a start, or a transient close,
\* whose timer makes one when it fires.

Pending == timers[NameA] + timers[NameB]

Room == Len(socks) + Pending < MaxSocks

NextReconnect ==
    \/ \E name \in Names, forceNew \in BOOLEAN : Room /\ StartSession(name, forceNew)
    \/ \E name \in Names : TimerFire(name)
    \/ \E h \in SockIds : ConnConnecting(h)
    \/ \E h \in SockIds : CredsUpdate(h)
    \/ \E h \in SockIds : ConnOpen(h)
    \/ \E h \in SockIds, loggedOut \in BOOLEAN :
          (ShouldReconnect(loggedOut) => Room) /\ ConnClose(h, loggedOut)
    \/ \E name \in Names, threw \in BOOLEAN : CloseSession(name, threw)

\* A timer that has been set fires: setTimeout(() => startSocket(...), 3000)
TimersFire == \A name \in Names : WF_vars(TimerFire(name))

SpecReconnect == Init /\ [][NextReconnect]_vars /\ TimersFire

\* SpecRejects: the same lifecycle, where startSocket may also reject when a
\* reconnect timer calls it
NextRejects ==
    \/ NextReconnect
    \/ \E name \in Names, made \in BOOLEAN : TimerFireRejects(name, made)

SpecRejects == Init /\ [][NextRejects]_vars

---------------------------------------------------------------------------
\* Properties of the Message Ledger

Jids == {Jid1, Jid2, JidG}

\* The ledger of a chat in a value of sessionMessages
LedgerIn(msgs, name, jid) == ArrayOf(msgs[name].map, jid)

Ids(arr) == {KeyId(arr[i]) : i \in 1..Len(arr)}

Entries(arr) == {arr[i] : i \in 1..Len(arr)}

UniqueIds(arr) == \A i, j \in 1..Len(arr) : KeyId(arr[i]) = KeyId(arr[j]) => i = j

\* A message with the key of a stored one and a content of its own
Duplicate(msg) == [key |-> msg.key, message |-> [conversation |-> <<"d", "u", "p">>]]

\* The message Map after one more append of msg to the ledger of jid, through
\* messages.upsert, through the history sync beside its chats and inside a
\* chat, and through the write-back of GET messages
AppendedBy(name, jid, msg) ==
    LET chat == [id |-> jid, messages |-> <<[message |-> msg]>>]
        w == Work(sessionMessages[name].map, sessionChats[name].map, <<>>)
    IN  {UpsertOne(w, msg).store,
         HistoryMessageOne(w, msg).store,
         HistoryEmbeddedOne(Work(w.store, MapSet(w.chats, jid, chat), <<>>), chat, 1).store,
         WriteBackOne(w, jid, msg).store}

\* C1: Ledger idempotence.  In every reachable state, for every session and
\* chat, the ids of the chat's ledger are pairwise distinct, and one more
\* append of a message whose id the ledger holds, with another content and
\* through any of the four routes, leaves the session's ledgers as they are.
LedgerIdempotence ==
    \A name \in Names, jid \in Jids :
        LET ledger == LedgerIn(sessionMessages, name, jid)
        IN  /\ UniqueIds(ledger)
            /\ \A i \in 1..Len(ledger) :
                  Str(ledger[i].key, "remoteJid") = jid =>
                      AppendedBy(name, jid, Duplicate(ledger[i])) = {sessionMessages[name].map}

\* A state in which each route has delivered a duplicate: messages.upsert (the
\* store's listener kept the second content of message 1, the ledger the
\* first), the history sync (the chat embeds the second content of message 1),
\* and the write-back of GET messages (two messages extracted, one stored)
LedgerIdempotenceWitness ==
    /\ last.op = "GET messages" /\ last.jid = Jid2
    /\ Len(last.res.messages) = 2
    /\ LedgerIn(sessionMessages, NameA, Jid2) = <<Msg(Jid2, 1, 1)>>
    /\ MapHas(sessionStores[NameA].messages, Jid1)
    /\ MapGet(MapGet(sessionStores[NameA].messages, Jid1), <<"1">>) = Msg(Jid1, 1, 2)
    /\ MapHas(sessionChats[NameA].map, Jid1)
    /\ EmbeddedMessages(MapGet(sessionChats[NameA].map, Jid1)) = Wrapped(<<Msg(Jid1, 1, 2)>>)
    /\ Len(LedgerIn(sessionMessages, NameA, Jid1)) = LedgerCap
    /\ Msg(Jid1, 1, 1) \in Entries(LedgerIn(sessionMessages, NameA, Jid1))
    /\ Msg(Jid1, LedgerCap + 1, 1) \notin Entries(LedgerIn(sessionMessages, NameA, Jid1))
    /\ LedgerCap + 1 \in {ToNumber(id).n : id \in Ids(LedgerIn(sessionMessages, NameA, Jid1))}

\* The ids pushed last for a chat, as many as the ledger keeps
PushedFor(name, jid) == SelectSeq(pushed[name], LAMBDA p : p.jid = jid)

LastPushed(name, jid) ==
    LET ps == PushedFor(name, jid)
    IN  {ps[i].id : i \in (Max(0, Len(ps) - LedgerCap) + 1)..Len(ps)}

\* C3: Ledger FIFO eviction.  In every reachable state, for every session and
\* chat, the ledger holds exactly the ids appended last, as many as the cap
\* allows: whatever was evicted was appended before everything that remains.
LedgerFifo ==
    \A name \in Names, jid \in Jids :
        Ids(LedgerIn(sessionMessages, name, jid)) = LastPushed(name, jid)

\* C2: Ledger cap.  In every reachable state, for every session and chat, the
\* Message Ledger holds at most LedgerCap entries.
LedgerCapped ==
    \A name \in Names, jid \in Jids :
        Len(LedgerIn(sessionMessages, name, jid)) <= LedgerCap

---------------------------------------------------------------------------
\* Properties of GET /api/:session/messages/:jid

Answered == last.op = "GET messages" /\ last.res.status = 200

\* C7: Retrieval ceiling.  Whatever the requested limit, the ledger, the
\* directory and the live fetch give, a GET messages response carries at most
\* ResponseCeiling messages.
RetrievalCeiling == Answered => Len(last.res.messages) <= ResponseCeiling

\* Responses that reach the ceiling with limit=1000: one from a ledger that
\* holds more, one from a live fetch that returned more
RetrievalCeilingWitness ==
    /\ Answered
    /\ last.limit = <<"1", "0", "0", "0">>
    /\ last.jid = Jid1
    /\ Len(LedgerIn(sessionMessages, NameA, Jid1)) > ResponseCeiling
    /\ Len(last.res.messages) = ResponseCeiling
    /\ last.res.total = ResponseCeiling

\* C8: Retrieval order.  The timestamps of the messages of a GET messages
\* response are non-decreasing along the list.
RetrievalOldestFirst ==
    Answered =>
        \A i, j \in 1..Len(last.res.messages) :
            i < j => TimeOf(last.res.messages[i]) <= TimeOf(last.res.messages[j])

\* The ids of the messages a chat record embeds, wrapped or not, in order
EmbeddedIdsOf(chats, jid) ==
    IF chats.has /\ MapHas(chats.map, jid)
    THEN LET raw == EmbeddedMessages(MapGet(chats.map, jid))
             info == [i \in 1..Len(raw) |->
                        IF "key" \in DOMAIN raw[i] THEN raw[i] ELSE Unwrap(raw[i])]
         IN  SelectSeq(Tuple([i \in 1..Len(raw) |-> KeyId(info[i])]), LAMBDA id : id # <<>>)
    ELSE <<>>

ResponseIds(res) == Tuple([i \in 1..Len(res.messages) |-> res.messages[i].id])

SetOf(seq) == {seq[i] : i \in 1..Len(seq)}

\* C9: Retrieval fallback to the embedded payload.  A GET messages request
\* for a chat whose ledger is empty and whose directory record embeds between
\* one and ResponseCeiling messages with ids is answered with exactly those
\* messages, each id once, stores them into the chat's ledger and does not
\* call loadMessages.
EmbeddedFallback ==
    [][\A jid \in Jids :
          LET embedded == EmbeddedIdsOf(sessionChats[NameA], jid)
              answered == ResponseIds(last'.res)
          IN  (/\ last'.op = "GET messages" /\ last'.res.status = 200 /\ last'.jid = jid
               /\ LedgerIn(sessionMessages, NameA, jid) = <<>>
               /\ Len(embedded) >= 1 /\ Len(embedded) <= ResponseCeiling)
              => /\ SetOf(answered) = SetOf(embedded)
                 /\ Len(answered) = Cardinality(SetOf(answered))
                 /\ Ids(LedgerIn(sessionMessages', NameA, jid)) = SetOf(embedded)
                 /\ last'.loadCalls = 0]_vars

---------------------------------------------------------------------------
\* Properties of GET /api/:session/chats

Listed == last.op = "GET chats" /\ last.res.status = 200

\* The raw chat records of a session's directory, in the order of the Map
RawChats(name) ==
    IF sessionChats[name].has
    THEN Tuple([i \in 1..Len(sessionChats[name].map) |-> sessionChats[name].map[i].v])
    ELSE <<>>

\* The contact of an anonymous id gives this phone number
ResolvesTo(name, lid, phone) ==
    /\ sessionStores[name].has
    /\ MapHas(sessionStores[name].contacts, lid)
    /\ Str(MapGet(sessionStores[name].contacts, lid), "phoneNumber") = phone

\* The unread count a raw record carries
RawUnread(chat) ==
    IF "unreadCount" \in DOMAIN chat /\ chat.unreadCount # 0 THEN chat.unreadCount
    ELSE IF "unread" \in DOMAIN chat THEN chat.unread
    ELSE 0

\* The raw records the first pass keeps under a canonical id, in order
MergedUnder(name, id) ==
    SelectSeq(RawChats(name),
              LAMBDA chat : /\ ~SkippedChat(ChatIdOf(chat))
                            /\ Resolve(chat, sessionStores[name]).known
                            /\ Resolve(chat, sessionStores[name]).canonicalId = id)

RECURSIVE SumUnread(_, _)
SumUnread(raws, n) == IF n = 0 THEN 0 ELSE SumUnread(raws, n - 1) + RawUnread(raws[n])

\* The records of a response under an id
ListedUnder(id) == {k \in 1..Len(last.res.chats) : last.res.chats[k].id = id}

\* A phone record and an anonymous record whose contact gives that phone
PhoneAndAnonymous(name, p, l) ==
    LET raw == RawChats(name)
    IN  /\ p \in 1..Len(raw) /\ l \in 1..Len(raw)
        /\ EndsWith(ChatIdOf(raw[p]), AtSWhatsappNet)
        /\ EndsWith(ChatIdOf(raw[l]), AtLid)
        /\ \E phone \in {SubSeq(ChatIdOf(raw[p]), 1, Len(ChatIdOf(raw[p])) - Len(AtSWhatsappNet))} :
              ResolvesTo(name, ChatIdOf(raw[l]), phone)

\* C4: Reconciler merge.  Whenever GET chats answers for a directory that
\* holds a phone record P@s.whatsapp.net and an anonymous record whose contact
\* gives phone P, the response lists exactly one record with id
\* P@s.whatsapp.net, and its unread count is the sum of the unread counts of
\* all the raw records merged under that id.
ReconcilerMerge ==
    Listed =>
        \A p, l \in 1..Len(RawChats(last.name)) :
            PhoneAndAnonymous(last.name, p, l) =>
                LET id == ChatIdOf(RawChats(last.name)[p])
                    merged == MergedUnder(last.name, id)
                IN  /\ Cardinality(ListedUnder(id)) = 1
                    /\ \A k \in ListedUnder(id) :
                          last.res.chats[k].unreadCount = SumUnread(merged, Len(merged))

\* The phone record 71 with 2 unread and the anonymous record 81 with 3, whose
\* contact gives phone 71: one record with 5
ReconcilerMergeWitness ==
    /\ Listed
    /\ \E p, l \in 1..Len(RawChats(last.name)) :
          /\ PhoneAndAnonymous(last.name, p, l)
          /\ RawUnread(RawChats(last.name)[p]) = 2
          /\ RawUnread(RawChats(last.name)[l]) = 3
    /\ Len(MergedUnder(last.name, Jid1)) = 2
    /\ \E k \in ListedUnder(Jid1) : last.res.chats[k].unreadCount = 5

\* C5: Canonical uniqueness.  No two records of a GET chats response have the
\* same id.
CanonicalUnique ==
    Listed =>
        \A i, j \in 1..Len(last.res.chats) :
            last.res.chats[i].id = last.res.chats[j].id => i = j

\* Three raw records, two of them under one canonical id, answered with two
CanonicalUniqueWitness ==
    /\ Listed
    /\ Len(RawChats(last.name)) = 3
    /\ Len(last.res.chats) = 2
    /\ \E id \in {Jid1, JidLong} : Len(MergedUnder(last.name, id)) = 2

\* The name the first pass gives a raw record
IncomingName(name, chat) == Resolve(chat, sessionStores[name]).name

\* The name of the canonical record of an id after the first n raw records
\* merged under it: the first name, replaced by the first later one that is
\* not "Unknown" if it is "Unknown"
RECURSIVE PreferredName(_, _, _)
PreferredName(name, raws, n) ==
    IF n = 1 THEN IncomingName(name, raws[1])
    ELSE LET current == PreferredName(name, raws, n - 1)
             incoming == IncomingName(name, raws[n])
         IN  IF current = Unknown /\ incoming # Unknown THEN incoming ELSE current

\* The name the first pass holds for an id after the first n raw records
NameAfter(name, id, n) ==
    LET merged == FirstPass(SubSeq(RawChats(name), 1, n), sessionStores[name]).merged
    IN  IF MapHas(merged, id) THEN MapGet(merged, id).name ELSE <<>>

CanonicalIds(name) ==
    {Resolve(chat, sessionStores[name]).canonicalId :
        chat \in {c \in SetOf(RawChats(name)) :
                     ~SkippedChat(ChatIdOf(c)) /\ Resolve(c, sessionStores[name]).known}}

\* C6: Reconciler name preference.  Whenever GET chats answers, along the
\* first pass the name of a canonical record changes only at a raw record
\* merged under its id, only from "Unknown" and only to that record's name,
\* which is not "Unknown"; and the response gives each canonical record the
\* first name merged under it, or, if that is "Unknown", the first later name
\* that is not.
NamePreference ==
    Listed =>
        \A id \in CanonicalIds(last.name) :
            LET raw == RawChats(last.name)
                merged == MergedUnder(last.name, id)
            IN  /\ \A n \in 1..Len(raw) :
                      LET before == NameAfter(last.name, id, n - 1)
                          after == NameAfter(last.name, id, n)
                      IN  (before # <<>> /\ after # before) =>
                              /\ before = Unknown
                              /\ after # Unknown
                              /\ after = IncomingName(last.name, raw[n])
                /\ \A k \in ListedUnder(id) :
                      last.res.chats[k].name = PreferredName(last.name, merged, Len(merged))

\* The phone record 71 named "Unknown", then the anonymous record 81 whose
\* contact is named "al": one record named "al"
NamePreferenceWitness ==
    /\ Listed
    /\ Len(MergedUnder(last.name, Jid1)) >= 2
    /\ IncomingName(last.name, MergedUnder(last.name, Jid1)[1]) = Unknown
    /\ IncomingName(last.name, MergedUnder(last.name, Jid1)[2]) = Al
    /\ \E k \in ListedUnder(Jid1) : last.res.chats[k].name = Al

---------------------------------------------------------------------------
\* Properties of the connection lifecycle

\* C10: Terminal logout.  A step that handles the 'close' event of a handle
\* with reason logged-out leaves no registered handle, no QR code, no Chat
\* Directory and no Message Ledger entry for the session of that handle, and
\* schedules no reconnect.
TerminalLogout ==
    [][\A h \in SockIds :
          (socks[h].state # "closed" /\ socks'[h].state = "closed" /\ socks'[h].loggedOut)
          => /\ sockets'[socks[h].name] = 0
             /\ qrCodes'[socks[h].name] = 0
             /\ ~sessionChats'[socks[h].name].has
             /\ ~sessionMessages'[socks[h].name].has
             /\ timers'[socks[h].name] = timers[socks[h].name]]_vars

\* The handles a step has just closed for a reason other than logged-out
ClosedTransiently(h) ==
    /\ h \in SockIds
    /\ socks[h].state # "closed"
    /\ socks'[h].state = "closed"
    /\ ~socks'[h].loggedOut

\* A step in which the reconnect timer of a session fires
Reconnects(name) == timers'[name] = timers[name] - 1

LiveHandles(name) == {h \in SockIds : socks[h].name = name /\ socks[h].state = "live"}

\* C12: One connection per session.  In every reachable state each session
\* name has at most one live connection handle.
OneConnection == \A name \in Names : Cardinality(LiveHandles(name)) <= 1

\* A step in which a start-session request with forceNew = true has made a handle
ForcedStart(name) ==
    /\ last'.op = "start-session" /\ last'.name = name /\ last'.forceNew
    /\ Len(socks') = Len(socks) + 1

\* C13: Force-new ordering.  When a start with forceNew = true has made its
\* new handle, every handle the session had before has been ended or closed,
\* the new handle is the only one the registry can hold for the session, and
\* the credentials persisted before the start are gone.
ForceNewOrdering ==
    [][\A name \in Names :
          ForcedStart(name)
          => /\ \A h \in SockIds : socks[h].name = name => socks'[h].state # "live"
             /\ sockets'[name] = 0
             /\ ~disk'[name].creds]_vars

\* C19: Reconnect keeps the ledger.  A step that handles a 'close' event with a
\* reason other than logged-out clears the pending QR code and the Chat
\* Directory of the session and leaves every Message Ledger as it was; so does,
\* for the ledgers, the step in which the reconnect makes the new handle and
\* every step in which a handle registers or connects.
ReconnectKeepsLedger ==
    [][/\ \A h \in SockIds :
             ClosedTransiently(h)
             => /\ qrCodes'[socks[h].name] = 0
                /\ sessionChats'[socks[h].name] = NoMap
                /\ sessionMessages' = sessionMessages
       /\ \A name \in Names :
             (Reconnects(name) \/ sockets'[name] # sockets[name])
             => sessionMessages' = sessionMessages
       /\ \A h \in SockIds :
             (socks'[h].user /\ ~socks[h].user) => sessionMessages' = sessionMessages]_vars

\* Session a has lost a handle to a transient close and is connected again
\* through a newer one; its ledger holds a message although its Chat Directory,
\* cleared by the close, has not been filled since
ReconnectKeepsLedgerWitness ==
    \E h, k \in SockIds :
       /\ h < k
       /\ socks[h].name = NameA /\ socks[k].name = NameA
       /\ socks[h].state = "closed" /\ ~socks[h].loggedOut
       /\ socks[k].state = "live" /\ socks[k].user /\ sockets[NameA] = k
       /\ ~sessionChats[NameA].has
       /\ Len(ArrayOf(sessionMessages[NameA].map, Jid1)) > 0

---------------------------------------------------------------------------
\* Properties of the HTTP surface

\* The steps in which a route registered after the middleware handles a request
Handled == last'.op \in Routes

RetrievalNeverErrors ==
    (last.op = "GET messages" /\ Connected(last.name))
    => /\ last.res.status = 200
       /\ last.res.success
       /\ last.res.messages = <<>> => last.res.warning

\* The routes that need a connected session
GuardedRoutes == {"GET chats", "all-chats", "group-info", "GET messages", "send-message"}

\* The methods of a connection a request has invoked
Invoked(request) ==
    IF request.op = "GET messages" THEN request.loadCalls # 0 ELSE request.calls # <<>>

\* C16: Not-connected guard.  A request to chats, all-chats, group-info,
\* messages or send-message for a session that has no registered handle, or
\* whose handle has no identity yet, is answered 400, invokes no method of a
\* connection and changes nothing but the answer.
NotConnectedGuard ==
    [][(last'.op \in GuardedRoutes /\ ~Connected(last'.name))
       => /\ last'.res.status = 400
          /\ ~Invoked(last')
          /\ UNCHANGED serverState]_vars

\* The route takes the body's phone as the target of the message
PhoneTarget(body) ==
    /\ ~(OrStr(body.chatJid, body.chatId) # <<>>
         /\ Includes(OrStr(body.chatJid, body.chatId), <<"@">>))
    /\ ~(body.isGroup /\ body.chatId # <<>>)
    /\ Truthy(body.phone)

\* The digits of a phone after its other characters are stripped
DigitCount(phone) ==
    IF phone.type = "string" THEN Len(CleanPhone(phone.s)) ELSE Len(NatToStr(phone.n))

NoTarget(body) == ~Truthy(body.phone) /\ body.chatId = <<>> /\ body.chatJid = <<>>

Sends(request) == {i \in 1..Len(request.calls) : request.calls[i] = "sendMessage"}

\* C17: Send validation.  A send-message request invokes sendMessage at most
\* once; a request without a message body, without any target, or whose target
\* is a phone of fewer than 10 or more than 15 digits invokes it never and is
\* answered 400.
SendValidation ==
    last.op = "send-message"
    => /\ Cardinality(Sends(last)) <= 1
       /\ (\/ last.body.message = <<>>
           \/ NoTarget(last.body)
           \/ /\ PhoneTarget(last.body)
              /\ DigitCount(last.body.phone) \notin MinPhoneDigits..MaxPhoneDigits)
          => (Sends(last) = {} /\ last.res.status = 400)

\* C18: Explicit close.  Once close-session has answered, the session has no
\* registered handle, no pending QR code and no credential directory, whatever
\* its state was and whether or not the logout of its handle threw.
ExplicitClose ==
    last.op = "close-session"
    => /\ sockets[last.name] = 0
       /\ qrCodes[last.name] = 0
       /\ ~disk[last.name].dir

\* The session names for which something has been created: a handle, a session
\* directory, or an entry of a cache
Created ==
    {n \in DOMAIN sockets :
        \/ \E h \in SockIds : socks[h].name = n
        \/ disk[n].dir
        \/ sessionMessages[n].has \/ sessionStores[n].has \/ sessionChats[n].has}

\* C20: Session name validity.  Every session name for which a handle, a
\* directory or a cache entry has been created is made of letters, digits,
\* '_' and '-' only, and a start-session or qrcode-session request with any
\* other name is answered 400.
SessionNameValidity ==
    /\ \A n \in Created : ValidName(n)
    /\ (last.op \in {"start-session", "qrcode-session"} /\ ~ValidName(last.name))
       => last.res.status = 400

---------------------------------------------------------------------------
\* Properties of the live fetch of GET messages

\* A request that called loadMessages and answered with what it returned
LiveLoaded ==
    /\ Answered
    /\ last.loadCalls = 1
    /\ last.res.messages # <<>>

\* C22: Live-fetch write-back.  After a GET messages request whose live fetch
\* returned at least one message, the ledger of the requested chat holds the
\* id of every message of the answer.
LiveWriteBack ==
    LiveLoaded
    => \A i \in 1..Len(last.res.messages) :
          Exists(LedgerIn(sessionMessages, last.name, last.jid), last.res.messages[i].id)

---------------------------------------------------------------------------
\* Properties of the order of the strategies of GET messages

\* The ids of a list of raw messages, and of the messages of an answer
RawIds(messages) == {KeyId(messages[i]) : i \in 1..Len(messages)}

AnswerIds(res) == {res.messages[i].id : i \in 1..Len(res.messages)}

\* What each in-memory source holds for a request of chat jid with the given
\* limit parameter, before the request: the ledger lookup of the helper, the
\* messages embedded in the chat record, the secondary store
LedgerFinds(name, jid, limit) ==
    GetMessagesForChat(sessionChats[name], sessionMessages[name], jid,
                       Max(MinMessages, RequestedLimit(limit)))

EmbeddedFinds(name, jid) ==
    ExtractEmbedded(EmbeddedMessages(ChatRecord(sessionChats[name], jid)))

StoreFinds(name, jid, limit) ==
    StoreMessages(sessionStores[name], jid, RequestedLimit(limit))

\* A step that answers a GET messages request from its strategies
Retrieves ==
    /\ last'.op = "GET messages"
    /\ last'.res.status = 200
    /\ ~last'.res.error

\* C23: Strategy order.  A GET messages request answers from the first source
\* that holds a message: from the ledger lookup if it finds any, else from the
\* embedded payload of the chat record, else from the secondary store; it
\* calls loadMessages at most once, with a limit of 10, and only when the
\* three in-memory sources gave nothing.
StrategyOrderStep ==
    Retrieves
    => LET name == last'.name
           jid == last'.jid
           ledger == LedgerFinds(name, jid, last'.limit).result
           embedded == EmbeddedFinds(name, jid)
           store == StoreFinds(name, jid, last'.limit)
       IN  /\ last'.loadCalls <= 1
           /\ last'.loadLimit = 10
           /\ last'.loadCalls = 1 <=> (ledger = <<>> /\ embedded = <<>> /\ store = <<>>)
           /\ ledger # <<>> => AnswerIds(last'.res) \subseteq RawIds(ledger)
           /\ (ledger = <<>> /\ embedded # <<>>)
              => AnswerIds(last'.res) \subseteq RawIds(embedded)
           /\ (ledger = <<>> /\ embedded = <<>> /\ store # <<>>)
              => AnswerIds(last'.res) = RawIds(store)

StrategyOrder == [][StrategyOrderStep]_vars

\* An answer taken from the secondary store: the chat has messages there and
\* neither in the ledger nor in its chat record, and loadMessages was not called
StrategyOrderWitness ==
    /\ Answered
    /\ last.jid = Jid2
    /\ last.loadCalls = 0
    /\ last.res.messages # <<>>
    /\ LedgerIn(sessionMessages, last.name, Jid2) = <<>>
    /\ ~sessionChats[last.name].has
    /\ AnswerIds(last.res) = RawIds(Range(Jid2, 6, 7, 1))

---------------------------------------------------------------------------
\* Properties of the pending QR code

\* C24: Open clears the QR.  A pairing challenge reaches a handle only before
\* it opens, so a pending QR code of a session is the code of a handle whose
\* 'open' and 'close' events have not been handled yet: the code of a handle
\* that has opened or closed was cleared by that event.
OpenClearsQr ==
    \A n \in Names :
        qrCodes[n] # 0
        => socks[qrCodes[n]].state = "live" /\ ~socks[qrCodes[n]].user

---------------------------------------------------------------------------
\* Properties of the reconnect timer

\* A step that makes a handle for session n, or its session directory
Creates(n) ==
    \/ ~disk[n].dir /\ disk'[n].dir
    \/ Len(socks') > Len(socks) /\ socks'[Len(socks')].name = n

\* C26: Explicit close stops the reconnect loop.  close-session removes the
\* session directory, so a session without a directory is one that was never
\* started or one that was closed: it gets a handle or a directory only by a
\* start-session or qrcode-session request for its name.
ExplicitCloseStopsReconnect ==
    [][\A n \in DOMAIN disk :
          (~disk[n].dir /\ Creates(n))
          => (last'.op \in {"start-session", "qrcode-session"} /\ last'.name = n)]_vars

---------------------------------------------------------------------------
\* Properties of group-info

\* C30: Group metadata timeout.  A group-info request on a connected session
\* whose groupMetadata call never answers is answered, and with status 504.
GroupMetadataTimeout ==
    (last.op = "group-info" /\ last.calls # <<>> /\ last.upstream = "hangs")
    => last.res.status = 504

---------------------------------------------------------------------------
\* Properties of the reconnect loop

\* Handle h has been closed for a reason other than logged-out
WasClosedTransiently(h) ==
    h \in SockIds /\ socks[h].state = "closed" /\ ~socks[h].loggedOut

\* A handle of the session of h has been made after h
Succeeded(h) ==
    \E k \in SockIds : k > h /\ socks[k].name = socks[h].name

ReconnectFailurePolicy ==
    (last.op = "none" /\ "event" \in DOMAIN last /\ last.event = "reconnect"
                      /\ last.rejected)
    => (last.logged /\ timers[last.name] > 0)

---------------------------------------------------------------------------
\* Properties of the persistence of the credentials

\* The last step handled a creds.update or an 'open' event
SavedNow ==
    /\ last.op = "none"
    /\ "event" \in DOMAIN last
    /\ last.event \in {"creds.update", "open"}

---------------------------------------------------------------------------
\* Properties of the requests that wait

\* C21: No indefinite blocking on live fetch.  A GET messages request that is
\* awaiting loadMessages is eventually answered, whether or not the call ever
\* settles.
NoIndefiniteBlocking == Awaiting ~> Answered

\* A step that answers the qrcode-session request that was polling
QrAnswerStep == Polling /\ last'.res.status # 0

\* C29: QR wait terminates.  A qrcode-session request that has started a
\* socket makes at most 40 polls and is eventually answered, under the
\* fairness of the timer of its polls; its answer carries the QR code the
\* session has when the wait ends, and qrcode = null with the retry advisory
\* when it has none.
QrWaitTerminates ==
    /\ [](Polling => last.attempts <= 40)
    /\ [][QrAnswerStep
          => /\ last'.res.status = 200
             /\ last'.attempts <= 40
             /\ last'.res.qrcode = qrCodes[last.name]
             /\ last'.res.retry = (qrCodes[last.name] = 0)
             /\ qrCodes[last.name] = 0 => last.attempts = 40]_vars
    /\ Polling ~> (last.op = "qrcode-session" /\ last.res.status = 200)

\* A wait that ran out: answered after 40 polls with the retry advisory
QrWaitTerminatesWitness ==
    /\ last.op = "qrcode-session"
    /\ last.res.status = 200
    /\ "attempts" \in DOMAIN last
    /\ last.attempts = MaxAttempts
    /\ last.res.qrcode = 0
    /\ last.res.retry

---------------------------------------------------------------------------
\* C31  Ledger read order

\* The normalized timestamp of the claim: the value of an integer or of a
\* decimal string, 0 for any other or a missing one
Normalized(msg) ==
    LET ts == Val(msg, "messageTimestamp")
    IN  CASE ts.type = "number" /\ ~ts.nan -> ts.n
          [] ts.type = "string" /\ ts.s # <<>> /\ DigitPrefix(ts.s) = ts.s -> DecimalValue(ts.s)
          [] OTHER -> 0

\* The place of a message in the order of the pushes into its ledger
PushedAt(name, jid, msg) ==
    CHOOSE i \in 1..Len(pushed[name]) : pushed[name][i] = [jid |-> jid, id |-> KeyId(msg)]

\* The ledger GET messages has just read and sorted
ReadLedger == ArrayOf(sessionMessages[last.name].map, last.jid)

HasRead == last.op = "GET messages" /\ "jid" \in DOMAIN last /\ ReadLedger # <<>>

InReadOrder(name, jid, a, b) ==
    \/ Normalized(a) < Normalized(b)
    \/ Normalized(a) = Normalized(b) /\ PushedAt(name, jid, a) < PushedAt(name, jid, b)

\* C31: after getMessagesForChat has read a chat's ledger, the ledger is in
\* ascending order of normalized timestamp, messages with equal timestamps in
\* the order of their insertion; a non-numeric or missing timestamp counts as 0
LedgerReadOrder ==
    HasRead =>
        \A i, j \in 1..Len(ReadLedger) :
            i < j => InReadOrder(last.name, last.jid, ReadLedger[i], ReadLedger[j])

\* The same for the ledgers whose messages have an integer, a decimal string
\* or no timestamp
NumericLedger ==
    \A i \in 1..Len(ReadLedger) :
        LET ts == Val(ReadLedger[i], "messageTimestamp")
        IN  ts.type = "string" => DigitPrefix(ts.s) = ts.s

LedgerReadOrderNumeric == HasRead /\ NumericLedger => LedgerReadOrder

---------------------------------------------------------------------------
\* C32  Timestamp max

\* The timestamp a raw chat record carries, in seconds, and whether it has one
HasSeconds(chat) == Truthy(Val(chat, "conversationTimestamp"))

RawSeconds(chat) ==
    IF chat.conversationTimestamp.type = "string"
    THEN DecimalValue(chat.conversationTimestamp.s)
    ELSE chat.conversationTimestamp.n

\* The answer lists the records of the directory
ListedCaptured == Listed /\ last.res.source = "event-captured"

\* The raw records merged under an id that carry a timestamp
TimedUnder(name, id) ==
    {i \in 1..Len(MergedUnder(name, id)) : HasSeconds(MergedUnder(name, id)[i])}

\* i carries the greatest timestamp of the raw records merged under id
CarriesMax(name, id, i) ==
    /\ i \in TimedUnder(name, id)
    /\ \A j \in TimedUnder(name, id) :
          RawSeconds(MergedUnder(name, id)[j]) <= RawSeconds(MergedUnder(name, id)[i])

TimestampMaxOf(name, c) ==
    IF TimedUnder(name, c.id) = {}
    THEN /\ c.lastMessageTime = Null
         /\ \E i \in 1..Len(MergedUnder(name, c.id)) : c.raw = MergedUnder(name, c.id)[i]
    ELSE \E i \in TimedUnder(name, c.id) :
            /\ CarriesMax(name, c.id, i)
            /\ c.lastMessageTime = Iso(RawSeconds(MergedUnder(name, c.id)[i]) * 1000)
            /\ c.raw = MergedUnder(name, c.id)[i]

\* C32: every record of a GET chats response has as its last-activity time the
\* greatest timestamp of the raw records merged into it, null only if none of
\* them has one, and as its raw payload a merged record that carries that
\* greatest timestamp.
TimestampMax ==
    ListedCaptured =>
        \A k \in 1..Len(last.res.chats) : TimestampMaxOf(last.name, last.res.chats[k])

\* Three raw records under one id: the first has no timestamp, the second has
\* one and the third a greater one, whose payload the answer carries
TimestampMaxWitness ==
    /\ ListedCaptured
    /\ \E k \in 1..Len(last.res.chats) :
          LET c == last.res.chats[k]
              merged == MergedUnder(last.name, c.id)
          IN  /\ Len(merged) = 3
              /\ TimedUnder(last.name, c.id) = {2, 3}
              /\ RawSeconds(merged[2]) < RawSeconds(merged[3])
              /\ c.raw = merged[3]
              /\ c.lastMessageTime = Iso(RawSeconds(merged[3]) * 1000)

---------------------------------------------------------------------------
\* C33  Reconciler order-independence

\* The orderings of n records
Orderings(n) == {f \in [1..n -> 1..n] : \A i, j \in 1..n : f[i] = f[j] => i = j}

\* The directory with its records in the order f
Reordered(chats, f) ==
    [chats EXCEPT !.map = Tuple([i \in 1..Len(chats.map) |-> chats.map[f[i]]])]

\* What the claim compares of a canonical record, with and without the pinned flag
Compared(c) ==
    [id |-> c.id, type |-> c.type, unreadCount |-> c.unreadCount,
     lastMessageTime |-> c.lastMessageTime, pinned |-> c.pinned]

ComparedUnpinned(c) ==
    [id |-> c.id, type |-> c.type, unreadCount |-> c.unreadCount,
     lastMessageTime |-> c.lastMessageTime]

\* The answer of GET chats for the same records in the order f
Reanswered(f) ==
    GetChatsBody(Reordered(sessionChats[last.name], f), sessionStores[last.name],
                 [kind |-> "throws"])

\* C33: GET chats answers the same set of canonical records, with the same
\* id, type, unread count, last-activity time and pinned flag, for every
\* ordering of the raw records of the directory under the same contact store.
OrderIndependence ==
    ListedCaptured =>
        \A f \in Orderings(Len(sessionChats[last.name].map)) :
            /\ Reanswered(f).status = 200
            /\ {Compared(Reanswered(f).chats[k]) : k \in 1..Len(Reanswered(f).chats)}
                  = {Compared(last.res.chats[k]) : k \in 1..Len(last.res.chats)}

\* The same without the pinned flag
OrderIndependenceUnpinned ==
    ListedCaptured =>
        \A f \in Orderings(Len(sessionChats[last.name].map)) :
            /\ Reanswered(f).status = 200
            /\ {ComparedUnpinned(Reanswered(f).chats[k]) : k \in 1..Len(Reanswered(f).chats)}
                  = {ComparedUnpinned(last.res.chats[k]) : k \in 1..Len(last.res.chats)}

---------------------------------------------------------------------------
\* C34  Canonical id rule

\* A broadcast or system sentinel, an id of one of the three formats, and an
\* id that produces no record
Sentinel(chatId) ==
    chatId = StatusBroadcast \/ chatId = ServerCUs \/ Includes(chatId, Broadcast)

Suffixed(chatId) ==
    EndsWith(chatId, AtGUs) \/ EndsWith(chatId, AtSWhatsappNet) \/ EndsWith(chatId, AtLid)

Discarded(chatId) == Sentinel(chatId) \/ ~Suffixed(chatId)

\* The phone number the contact table holds for an id, "" when it holds none
ContactPhone(name, chatId) ==
    IF sessionStores[name].has /\ MapHas(sessionStores[name].contacts, chatId)
    THEN Str(MapGet(sessionStores[name].contacts, chatId), "phoneNumber")
    ELSE <<>>

\* The part of an anonymous id before @lid
LidHead(chatId) == SubSeq(chatId, 1, Len(chatId) - Len(AtLid))

PhoneLike(chatId) ==
    /\ LidHead(chatId) # <<>>
    /\ \A i \in 1..Len(LidHead(chatId)) : LidHead(chatId)[i] \in DigitChars
    /\ Len(LidHead(chatId)) >= 10
    /\ Len(LidHead(chatId)) <= 15

\* The canonical id of the rule
RuleId(name, chatId) ==
    IF EndsWith(chatId, AtGUs) \/ EndsWith(chatId, AtSWhatsappNet) THEN chatId
    ELSE IF ContactPhone(name, chatId) # <<>>
    THEN ContactPhone(name, chatId) \o AtSWhatsappNet
    ELSE IF PhoneLike(chatId) THEN LidHead(chatId) \o AtSWhatsappNet
    ELSE chatId

RawIdsOf(name) == {ChatIdOf(RawChats(name)[i]) : i \in 1..Len(RawChats(name))}

\* C34: the records GET chats answers are those of the canonical ids of the
\* raw records that are neither sentinels nor of an unknown format: a group or
\* phone id is its own canonical id, an anonymous id has the phone id of its
\* contact's phone number, else the phone id of its 10 to 15 digits, else itself;
\* each record comes from a raw record of that canonical id.
CanonicalIdRule ==
    ListedCaptured =>
        /\ {last.res.chats[k].id : k \in 1..Len(last.res.chats)}
              = {RuleId(last.name, id) : id \in {x \in RawIdsOf(last.name) : ~Discarded(x)}}
        /\ \A k \in 1..Len(last.res.chats) :
              /\ last.res.chats[k].originalId \in RawIdsOf(last.name)
              /\ ~Discarded(last.res.chats[k].originalId)
              /\ last.res.chats[k].id = RuleId(last.name, last.res.chats[k].originalId)

\* A sentinel beside an anonymous id of 10 digits whose contact gives a phone
\* number: one record, under the contact's phone id
CanonicalIdRuleWitness ==
    /\ ListedCaptured
    /\ RawIdsOf(last.name) = {StatusBroadcast, LidOf(10)}
    /\ ContactPhone(last.name, LidOf(10)) = <<"7", "2">>
    /\ Len(last.res.chats) = 1
    /\ last.res.chats[1].id = Jid2

---------------------------------------------------------------------------
\* C35  Contact additive merge

\* The contacts a session's store holds, after the step too
ContactsOf(name) == sessionStores[name].contacts

ContactsAfter(name) == sessionStores'[name].contacts

\* The field f of the stored contact id holds a non-empty value
HoldsValue(contacts, id, f) ==
    /\ MapHas(contacts, id)
    /\ f \in DOMAIN MapGet(contacts, id)
    /\ MapGet(contacts, id)[f] # <<>>

ContactFields == {"name", "phoneNumber"}

\* C35: a field of a stored contact that holds a non-empty value holds a
\* non-empty value after every contacts.upsert and contacts.update event; an
\* empty or missing incoming field does not erase it.
ContactAdditiveMerge ==
    [][\A name \in Names, id \in {Lid1, Lid2}, f \in ContactFields :
          HoldsValue(ContactsOf(name), id, f) => HoldsValue(ContactsAfter(name), id, f)]_vars

\* The same for the events whose record has no empty field
NoEmptyField(contacts, id) ==
    MapHas(contacts, id) =>
        \A f \in ContactFields \cap DOMAIN MapGet(contacts, id) : MapGet(contacts, id)[f] # <<>>

ContactMergeOfValues ==
    [][(\A name \in Names, id \in {Lid1, Lid2} :
           NoEmptyField(ContactsOf(name), id) /\ NoEmptyField(ContactsAfter(name), id))
       => \A name \in Names, id \in {Lid1, Lid2}, f \in ContactFields :
             HoldsValue(ContactsOf(name), id, f) => HoldsValue(ContactsAfter(name), id, f)]_vars

---------------------------------------------------------------------------
\* C36  Per-session event serialization

\* A connection.update handler of the session is in progress: it awaits the
\* rendering of its pairing challenge
InProgress(name) == \E i \in 1..Len(renders) : renders[i].name = name

\* The step starts the handling of an event of the handle
EventStarts(h) ==
    \/ ConnConnecting(h)
    \/ ConnQr(h)
    \/ ConnOpen(h)
    \/ \E loggedOut \in BOOLEAN : ConnClose(h, loggedOut)
    \/ \E messages \in SpecUpserts : MessagesUpsert(h, messages, "notify")
    \/ \E history \in SpecHistories : HistorySet(h, history)
    \/ \E chats \in SpecChatUpdates : ChatsUpdate(h, chats)

\* C36: the handling of an event of a session starts only when no handler of an
\* earlier event of that session is still in progress.
EventSerialization ==
    [][\A h \in SockIds : EventStarts(h) => ~InProgress(socks[h].name)]_vars

---------------------------------------------------------------------------
\* C37  Stale close is harmless

\* Another handle than h is registered for the session of h
Superseded(h) == sockets[socks[h].name] # 0 /\ sockets[socks[h].name] # h

\* C37: a 'close' event of a handle that another handle has superseded in the
\* registry leaves the registered handle, the pending QR, the Chat Directory
\* and the reconnect timers of its session as they are.
StaleCloseHarmless ==
    [][\A h \in SockIds, loggedOut \in BOOLEAN :
          Superseded(h) /\ ConnClose(h, loggedOut) =>
              /\ sockets'[socks[h].name] = sockets[socks[h].name]
              /\ qrCodes'[socks[h].name] = qrCodes[socks[h].name]
              /\ sessionChats'[socks[h].name] = sessionChats[socks[h].name]
              /\ timers'[socks[h].name] = timers[socks[h].name]]_vars

---------------------------------------------------------------------------
\* C38  Status after permanent logout

\* The handles made for a session
HandlesOf(name) == {h \in SockIds : socks[h].name = name}

\* The last handle made for the session has closed with reason logged-out and
\* none of its handles is open: no start has made a handle since
LoggedOutFor(name) ==
    /\ HandlesOf(name) # {}
    /\ \A h \in HandlesOf(name) : socks[h].state = "closed"
    /\ \E h \in HandlesOf(name) :
          socks[h].loggedOut /\ \A g \in HandlesOf(name) : g <= h

\* C38: status-session for a session whose last handle has closed with reason
\* logged-out, and for which no handle has been started since, answers
\* 'disconnected'.
StatusAfterLogout ==
    (last.op = "status-session" /\ last.res.status = 200 /\ LoggedOutFor(last.name))
        => last.res.state = "disconnected"

---------------------------------------------------------------------------
\* C39  Session isolation

\* What the registries hold for a session: the registered handle and its
\* fields, the pending QR, the Chat Directory, the Message Ledger and the
\* contact store; after the step too
HeldFor(name) ==
    [sock |-> sockets[name],
     handle |-> IF sockets[name] = 0 THEN NoRequest ELSE socks[sockets[name]],
     qr |-> qrCodes[name],
     chats |-> sessionChats[name],
     messages |-> sessionMessages[name],
     contacts |-> sessionStores[name].contacts]

HeldAfter(name) ==
    [sock |-> sockets'[name],
     handle |-> IF sockets'[name] = 0 THEN NoRequest ELSE socks'[sockets'[name]],
     qr |-> qrCodes'[name],
     chats |-> sessionChats'[name],
     messages |-> sessionMessages'[name],
     contacts |-> sessionStores'[name].contacts]

\* The step handles an event of a handle of the session, the firing of its
\* reconnect timer, or a request addressed to it
EventOf(name) ==
    \/ \E h \in SockIds : socks[h].name = name /\ EventStarts(h)
    \/ \E h \in SockIds, list \in SpecContacts :
          socks[h].name = name /\ ContactsUpsert(h, list)
    \/ \E i \in 1..Len(renders), ok \in BOOLEAN : renders[i].name = name /\ RenderDone(i, ok)
    \/ TimerFire(name)

RequestTo(name) ==
    \/ \E forceNew \in BOOLEAN : StartSession(name, forceNew)
    \/ GetMessages(name, Jid1, <<>>, [kind |-> "throws"], NowMs)
    \/ GetChats(name, [kind |-> "throws"])

\* C39: a step that handles an event of a session or a request addressed to
\* it leaves the registered handle, the pending QR, the Chat Directory, the
\* Message Ledger and the contact store of every other session unchanged: a
\* step that changes one of them for a session is no event of another session
\* and no request addressed to another one.
SessionIsolation ==
    [][\A other \in Names :
          HeldAfter(other) # HeldFor(other) =>
              \A name \in Names \ {other} : ~(EventOf(name) \/ RequestTo(name))]_vars

\* Session b is registered with a pending QR, a Chat Directory and a ledger
\* while the handle of session a, which has filled its own, has closed
SessionIsolationWitness ==
    /\ \E h \in SockIds : socks[h].name = NameA /\ socks[h].state = "closed"
    /\ sockets[NameA] = 0
    /\ sessionMessages[NameA].has /\ sessionMessages[NameA].map # <<>>
    /\ sockets[NameB] # 0
    /\ qrCodes[NameB] # 0
    /\ sessionMessages[NameB].has /\ sessionMessages[NameB].map = <<>>

---------------------------------------------------------------------------
\* C40  Caches outlive purge

\* A step that answers DELETE close-session for the session
ClosesSession(name) == last'.op = "close-session" /\ last'.name = name

\* The session has lost a handle to close-session or to a start with forceNew
Purged(name) ==
    \E h \in SockIds :
       socks[h].name = name /\ (socks[h].state = "ended" \/ socks[h].loggedOut)

\* A step that answers GET messages of the session with status 200
AnswersMessages(name) ==
    last'.op = "GET messages" /\ last'.name = name /\ last'.res.status = 200

\* The answer of the step has the message
Returned(msg) ==
    \E i \in 1..Len(last'.res.messages) : last'.res.messages[i].id = KeyId(msg)

\* C40: Caches outlive purge.  A step that answers close-session, or in which
\* a start with forceNew makes its handle, leaves the Message Ledger of the
\* session and the contacts of its store as they were; and GET messages on a
\* session connected again after such a purge answers with every message of
\* the chat's ledger, for a ledger of no more than the least number of
\* messages an answer holds.
CachesOutlivePurge ==
    [][\A name \in Names :
          /\ (ClosesSession(name) \/ ForcedStart(name))
             => /\ sessionMessages[name].has => sessionMessages'[name] = sessionMessages[name]
                /\ sessionStores[name].has
                   => /\ sessionStores'[name].has
                      /\ sessionStores'[name].contacts = sessionStores[name].contacts
          /\ (AnswersMessages(name) /\ Purged(name))
             => LET cached == LedgerIn(sessionMessages, name, last'.jid)
                IN  Len(cached) <= MinMessages
                    => \A i \in 1..Len(cached) : Returned(cached[i])]_vars

\* Session a has lost its first handle, which had received two messages and a
\* contact, to close-session and a later one to a start with forceNew; it is
\* connected through a third, and GET messages has answered with both messages
CachesOutlivePurgeWitness ==
    /\ \E h \in SockIds : socks[h].name = NameA /\ socks[h].loggedOut
    /\ \E h \in SockIds : socks[h].name = NameA /\ socks[h].state = "ended"
    /\ socks[1].state # "live"
    /\ Connected(NameA)
    /\ Answered /\ last.name = NameA
    /\ Len(last.res.messages) = 2
    /\ Len(sessionStores[NameA].contacts) > 0

====
